---- MODULE Spec2Model ----
(***************************************************************************)
(* Verification model of the OptiSched schedule generator                  *)
(* (src/src/controllers/scheduleGeneration.controller.ts) and of the user  *)
(* query it reads its instructors through (src/src/services/               *)
(* user.service.ts).                                                       *)
(*                                                                         *)
(* Representation:                                                         *)
(*  - a time string "HH:MM" is the record [h |-> HH, m |-> MM];            *)
(*  - the packed keys `${semester}|${day}|${start}|${end}` are tuples;     *)
(*  - hoursPerSession / durations are kept in minutes (1.5h = 90);         *)
(*  - a JS Map with `get(k) || default` is a total function whose          *)
(*    default value stands for the missing key.                            *)
(***************************************************************************)
EXTENDS Integers, Sequences, FiniteSets, TLC

\* ------------------------------------------------------------------------
\* Bounds of the model
\* ------------------------------------------------------------------------
MaxCourses == 3
MaxCoursesTwoCalls == 2
MaxSaveRows == 2
MaxCoursesLive == 2
MaxCoursesQuery == 1
MaxInstructorsRank == 6
MaxUnits == 5
MaxItemSlots == 2

\* ------------------------------------------------------------------------
\* Generic helpers
\* ------------------------------------------------------------------------
Range(s) == {s[i] : i \in 1..Len(s)}

SetMin(S) == CHOOSE x \in S : \A y \in S : x <= y

\* Number.prototype.toString for the small ids of the model
Digits == <<"1", "2", "3", "4", "5", "6", "7", "8", "9">>

toString(n) == Digits[n]

\* ------------------------------------------------------------------------
\* Scheduling constants
\* ------------------------------------------------------------------------
DAYS == <<"Monday", "Tuesday", "Wednesday", "Thursday", "Friday", "Saturday", "Sunday">>

LECTURE_DAY_PAIRS ==
  << <<"Monday", "Wednesday">>,
     <<"Tuesday", "Thursday">>,
     <<"Monday", "Friday">>,
     <<"Wednesday", "Friday">>,
     <<"Tuesday", "Friday">> >>

LAB_DAY_PAIRS ==
  << <<"Tuesday", "Thursday">>,
     <<"Wednesday", "Friday">>,
     <<"Monday", "Friday">>,
     <<"Monday", "Wednesday">>,
     <<"Tuesday", "Friday">> >>

T(hh, mm) == [h |-> hh, m |-> mm]

Slot(s, e) == [start |-> s, end |-> e]

TIME_SLOTS_1H ==
  << Slot(T(7, 0), T(8, 0)),   Slot(T(8, 0), T(9, 0)),   Slot(T(9, 0), T(10, 0)),
     Slot(T(10, 0), T(11, 0)), Slot(T(11, 0), T(12, 0)), Slot(T(13, 0), T(14, 0)),
     Slot(T(14, 0), T(15, 0)), Slot(T(15, 0), T(16, 0)), Slot(T(16, 0), T(17, 0)),
     Slot(T(17, 0), T(18, 0)), Slot(T(18, 0), T(19, 0)), Slot(T(19, 0), T(20, 0)) >>

TIME_SLOTS_1_5H ==
  << Slot(T(7, 0), T(8, 30)),    Slot(T(8, 0), T(9, 30)),    Slot(T(8, 30), T(10, 0)),
     Slot(T(9, 0), T(10, 30)),   Slot(T(9, 30), T(11, 0)),   Slot(T(10, 0), T(11, 30)),
     Slot(T(10, 30), T(12, 0)),  Slot(T(11, 0), T(12, 30)),  Slot(T(13, 0), T(14, 30)),
     Slot(T(13, 30), T(15, 0)),  Slot(T(14, 0), T(15, 30)),  Slot(T(14, 30), T(16, 0)),
     Slot(T(15, 0), T(16, 30)),  Slot(T(15, 30), T(17, 0)),  Slot(T(16, 0), T(17, 30)),
     Slot(T(16, 30), T(18, 0)),  Slot(T(17, 0), T(18, 30)),  Slot(T(17, 30), T(19, 0)),
     Slot(T(18, 0), T(19, 30)),  Slot(T(18, 30), T(20, 0)) >>

\* ------------------------------------------------------------------------
\* Session rules
\* ------------------------------------------------------------------------
SessionRule(ty, total, perWeek, perSession, prio) ==
  [type |-> ty, totalHoursNeeded |-> total, sessionsPerWeek |-> perWeek,
   hoursPerSession |-> perSession, priority |-> prio]

toUpperCase(s) ==
  CASE s = "bscs" -> "BSCS"
    [] s = "act" -> "ACT"
    [] s = "bsit" -> "BSIT"
    [] OTHER -> s

\* lecture rules that give every unit a session of one hour
lectureRulesHourPerUnit(lecUnits) ==
  IF lecUnits > 0 THEN << SessionRule("Lecture", lecUnits * 60, lecUnits, 60, 1) >> ELSE << >>

lectureRules(lecUnits) ==
  IF lecUnits > 0
    THEN IF lecUnits = 3 THEN << SessionRule("Lecture", 180, 2, 90, 1) >>
         ELSE IF lecUnits = 2 THEN << SessionRule("Lecture", 120, 2, 60, 1) >>
         ELSE IF lecUnits = 1 THEN << SessionRule("Lecture", 60, 1, 60, 1) >>
         ELSE << SessionRule("Lecture", lecUnits * 60, lecUnits, 60, 1) >>
    ELSE << >>

laboratoryRules(labUnits, department) ==
  IF labUnits > 0
    THEN IF department # "" /\ (toUpperCase(department) = "BSCS" \/ toUpperCase(department) = "ACT")
           THEN << SessionRule("Laboratory", labUnits * 180, labUnits * 2, 90, 2) >>
           ELSE << SessionRule("Laboratory", labUnits * 60, labUnits, 60, 2) >>
    ELSE << >>

\* the rules with the laboratory rule ahead of the lecture rule
calculateSessionRulesLaboratoryFirst(lecUnits, labUnits, department) ==
  laboratoryRules(labUnits, department) \o lectureRules(lecUnits)

\* rules.sort((a, b) => a.priority - b.priority): the lecture rule (priority 1)
\* is pushed before the laboratory rule (priority 2), the stable sort keeps it so
calculateSessionRules(lecUnits, labUnits, department) ==
  lectureRules(lecUnits) \o laboratoryRules(labUnits, department)

\* ------------------------------------------------------------------------
\* Time arithmetic
\* ------------------------------------------------------------------------
timeToMinutes(time) == time.h * 60 + time.m

minutesToTime(minutes) == T(minutes \div 60, minutes % 60)

timeRangesOverlap(start1, end1, start2, end2) ==
  timeToMinutes(start1) < timeToMinutes(end2) /\ timeToMinutes(start2) < timeToMinutes(end1)

\* the validity test without the lunch-break condition
isValidTimeSlotNoLunch(startTime, endTime) ==
  LET startMin == timeToMinutes(startTime)
      endMin == timeToMinutes(endTime)
      validStart == startMin >= timeToMinutes(T(7, 0))
      validEnd == endMin <= timeToMinutes(T(20, 0))
  IN  validStart /\ validEnd /\ endMin > startMin

isValidTimeSlot(startTime, endTime) ==
  LET startMin == timeToMinutes(startTime)
      endMin == timeToMinutes(endTime)
      lunchStart == timeToMinutes(T(12, 0))
      lunchEnd == timeToMinutes(T(13, 0))
      overlapsLunch == startMin < lunchEnd /\ endMin > lunchStart
      validStart == startMin >= timeToMinutes(T(7, 0))
      validEnd == endMin <= timeToMinutes(T(20, 0))
  IN  ~overlapsLunch /\ validStart /\ validEnd /\ endMin > startMin

\* ------------------------------------------------------------------------
\* JSON column values (tags, specialization, availableDays, ...)
\*   kind "null"   : null / undefined / missing from the select
\*   kind "array"  : a JSON array, items are its elements
\*   kind "string" : a plain string; items are the pieces parseJsonArray
\*                   makes of it (comma split, or the trimmed string itself)
\* ------------------------------------------------------------------------
Null == [kind |-> "null", items |-> << >>]

Arr(s) == [kind |-> "array", items |-> s]

Str(s) == [kind |-> "string", items |-> s]

truthy(json) == json.kind # "null" /\ ~(json.kind = "string" /\ json.items = << >>)

parseJsonArray(jsonString) ==
  IF jsonString.kind = "array" THEN jsonString.items
  ELSE IF ~truthy(jsonString) THEN << >>
  ELSE jsonString.items

\* String.prototype.toLowerCase().trim() on the tag vocabulary of the model
normalize(tag) ==
  CASE tag = "Programming" -> "programming"
    [] tag = " programming " -> "programming"
    [] tag = "Networking" -> "networking"
    [] tag = "Regular" -> "regular"
    [] OTHER -> tag

calculateFacultyMatchScore(courseTags, facultySpecializations) ==
  IF Len(courseTags) = 0 \/ Len(facultySpecializations) = 0 THEN 0
  ELSE LET normalizedSpecializations == {normalize(facultySpecializations[i]) : i \in 1..Len(facultySpecializations)}
           matchedTagsCount == Cardinality({i \in 1..Len(courseTags) : normalize(courseTags[i]) \in normalizedSpecializations})
           n == Len(courseTags)
       IN  \* Math.round((matched / n) * 100)
           (200 * matchedTagsCount + n) \div (2 * n)

\* ------------------------------------------------------------------------
\* Faculty preferences
\* ------------------------------------------------------------------------
isFacultyAvailableOnDays(faculty, days) ==
  IF ~truthy(faculty.availableDays) THEN TRUE
  ELSE LET availableDays == parseJsonArray(faculty.availableDays)
       IN  IF Len(availableDays) = 0 THEN TRUE
           ELSE \A i \in 1..Len(days) : days[i] \in Range(availableDays)

\* The items of preferredTimeSlots:
\*   "start:HH:MM"          -> StartItem(T(HH, MM))
\*   "end:HH:MM"            -> EndItem(T(HH, MM))
\*   "h:mm AM - h:mm PM"    -> RangeItem(T(h, mm), "AM", T(h, mm), "PM")
StartItem(t) == [form |-> "start", t1 |-> t, p1 |-> "", t2 |-> t, p2 |-> ""]

EndItem(t) == [form |-> "end", t1 |-> t, p1 |-> "", t2 |-> t, p2 |-> ""]

RangeItem(a, pa, b, pb) == [form |-> "range", t1 |-> a, p1 |-> pa, t2 |-> b, p2 |-> pb]

\* 12-hour to 24-hour conversion of one end of a "h:mm AM - h:mm PM" range
to24Hour(t, period) ==
  IF period = "" THEN t
  ELSE LET hour24 == IF period = "PM" /\ t.h # 12 THEN t.h + 12
                     ELSE IF period = "AM" /\ t.h = 12 THEN 0
                     ELSE t.h
       IN  T(hour24, t.m)

isFacultyAvailableAtTime(faculty, startTime, endTime) ==
  IF ~truthy(faculty.preferredTimeSlots) THEN TRUE
  ELSE LET preferredTimeSlots == parseJsonArray(faculty.preferredTimeSlots)
           startMin == timeToMinutes(startTime)
           endMin == timeToMinutes(endTime)
           starts == {i \in 1..Len(preferredTimeSlots) : preferredTimeSlots[i].form = "start"}
           ends == {i \in 1..Len(preferredTimeSlots) : preferredTimeSlots[i].form = "end"}
           ranges == {i \in 1..Len(preferredTimeSlots) : preferredTimeSlots[i].form = "range"}
           Max(S) == CHOOSE x \in S : \A y \in S : y <= x
       IN  IF Len(preferredTimeSlots) = 0 THEN TRUE
           ELSE IF starts # {} /\ ends # {}
             THEN \* the last "start:" and the last "end:" item win
                  /\ startMin >= timeToMinutes(preferredTimeSlots[Max(starts)].t1)
                  /\ endMin <= timeToMinutes(preferredTimeSlots[Max(ends)].t1)
             ELSE \E i \in ranges :
                    LET it == preferredTimeSlots[i]
                    IN  /\ startMin >= timeToMinutes(to24Hour(it.t1, it.p1))
                        /\ endMin <= timeToMinutes(to24Hour(it.t2, it.p2))

\* ------------------------------------------------------------------------
\* Faculty scoring and ranking
\* ------------------------------------------------------------------------
Min2(a, b) == IF a < b THEN a ELSE b

\* String.prototype.includes('regular') after toLowerCase, on the designations of the model
includesRegular(designation) ==
  designation \in {"Regular Faculty", "regular", "Regular"}

\* a scorer that disqualifies an instructor whom the units of the course would overload
calculateEnhancedFacultyScoreWithCourseUnits(course, faculty, courseTags, facultySpecializations, currentWorkload, maxUnits) ==
  IF currentWorkload + course.units > maxUnits THEN 0 - 1000
  ELSE calculateFacultyMatchScore(courseTags, facultySpecializations)
         + (IF includesRegular(faculty.designation) THEN 10 ELSE 0)

calculateEnhancedFacultyScore(course, faculty, courseTags, facultySpecializations, currentWorkload, maxUnits) ==
  LET tagMatchPercentage == calculateFacultyMatchScore(courseTags, facultySpecializations)
      previousSubjects == parseJsonArray(faculty.previousSubjects)
      hasTaughtSubject == \E i \in 1..Len(previousSubjects) :
                             \/ normalize(previousSubjects[i]) = normalize(course.subjectCode)
                             \/ normalize(previousSubjects[i]) = normalize(course.subjectDescription)
      experience == faculty.yearsOfExperience
      score == tagMatchPercentage
               + (IF hasTaughtSubject THEN 50 ELSE 0)
               + Min2(experience, 20)
               + (IF includesRegular(faculty.designation) THEN 10 ELSE 0)
  IN  IF currentWorkload >= maxUnits THEN 0 - 1000 ELSE score

\* String.prototype.localeCompare on the strings the model compares: the
\* position in this alphabetically sorted table
StringOrder ==
  << "", "1st Semester", "1st Year", "2nd Semester", "2nd Year", "Abad", "BSCS", "BSIT",
     "CS101", "CS102", "Cruz", "Dizon", "Garcia", "GE101", "IT201", "IT202", "Lim", "Reyes",
     "Santos" >>

StringRank(str) == CHOOSE i \in 1..Len(StringOrder) : StringOrder[i] = str

localeCompare(a, b) == StringRank(a) - StringRank(b)

\* instructor.specialization || instructor.designation || ''
specializationOf(instructor) ==
  IF truthy(instructor.specialization) THEN parseJsonArray(instructor.specialization)
  ELSE IF instructor.designation # "" THEN << instructor.designation >>
  ELSE << >>

\* the comparator of facultyWithScores.sort: negative when a sorts before b
compareFaculty(a, b) ==
  IF b.matchScore # a.matchScore THEN b.matchScore - a.matchScore
  ELSE IF b.tagMatchPercentage # a.tagMatchPercentage THEN b.tagMatchPercentage - a.tagMatchPercentage
  ELSE IF b.yearsOfExperience # a.yearsOfExperience THEN b.yearsOfExperience - a.yearsOfExperience
  ELSE localeCompare(a.lastname, b.lastname)

\* Array.prototype.sort (stable): an element is preceded by the elements that compare
\* before it and by the equal ones that stood before it
sortFaculty(list) ==
  LET position(i) == 1 + Cardinality({j \in 1..Len(list) :
                                        \/ compareFaculty(list[j], list[i]) < 0
                                        \/ (compareFaculty(list[j], list[i]) = 0 /\ j < i)})
  IN  [k \in 1..Len(list) |-> list[CHOOSE i \in 1..Len(list) : position(i) = k]]

MaxMatches == 5

DefaultMaxUnits == 18

CampusAdminMaxUnits == 6

findBestFacultyMatchesWithRoles(course, instructorList, facultyWorkloadMap, instructorMaxUnitsMap, maxMatches) ==
  LET courseTags == parseJsonArray(course.tags)
      facultyWithScores ==
        [i \in 1..Len(instructorList) |->
           LET instructor == instructorList[i]
               facultySpecializations == specializationOf(instructor)
               currentLoad == facultyWorkloadMap[toString(instructor.id)]
               maxUnits == IF instructorMaxUnitsMap[toString(instructor.id)] # 0
                             THEN instructorMaxUnitsMap[toString(instructor.id)]
                             ELSE DefaultMaxUnits
           IN  [matchScore |-> calculateEnhancedFacultyScore(course, instructor, courseTags,
                                                                 facultySpecializations, currentLoad, maxUnits),
                tagMatchPercentage |-> calculateFacultyMatchScore(courseTags, facultySpecializations),
                currentWorkload |-> currentLoad,
                maxUnits |-> maxUnits] @@ instructor]
      sortedFaculty == sortFaculty(facultyWithScores)
      rankedFaculty == [i \in 1..Len(sortedFaculty) |-> [rank |-> i] @@ sortedFaculty[i]]
      isGoodMatch(f) == f.matchScore > 0 /\ f.tagMatchPercentage > 0
      goodMatches == SelectSeq(rankedFaculty, isGoodMatch)
  IN  SubSeq(goodMatches, 1, Min2(maxMatches, Len(goodMatches)))

\* ------------------------------------------------------------------------
\* Availability oracle over the tracking tables
\* ------------------------------------------------------------------------
\* a room check that only rejects a booking with the same start time
isRoomAvailableSameStart(roomId, days, startTime, endTime, semester, usedRoomsMap) ==
  LET roomSlots == usedRoomsMap[roomId]
  IN  \A i \in 1..Len(days) : \A existingSlot \in roomSlots :
        (existingSlot[1] = semester /\ existingSlot[2] = days[i]) => existingSlot[3] # startTime

isRoomAvailable(roomId, days, startTime, endTime, semester, usedRoomsMap) ==
  LET roomSlots == usedRoomsMap[roomId]
  IN  \A i \in 1..Len(days) : \A existingSlot \in roomSlots :
        (existingSlot[1] = semester /\ existingSlot[2] = days[i])
          => ~timeRangesOverlap(startTime, endTime, existingSlot[3], existingSlot[4])

\* a break test that lets a class start at the minute the previous one ends
breakViolationStrict(startTime, endTime, existingStart, existingEnd) ==
  LET currentStartMin == timeToMinutes(startTime)
      currentEndMin == timeToMinutes(endTime)
      existingStartMin == timeToMinutes(existingStart)
      existingEndMin == timeToMinutes(existingEnd)
  IN  \/ (currentStartMin > existingEndMin /\ currentStartMin < existingEndMin + 30)
      \/ (existingStartMin > currentEndMin /\ existingStartMin < currentEndMin + 30)

\* the 30-minute break requirement between a new class and an existing one
breakViolation(startTime, endTime, existingStart, existingEnd) ==
  LET currentStartMin == timeToMinutes(startTime)
      currentEndMin == timeToMinutes(endTime)
      existingStartMin == timeToMinutes(existingStart)
      existingEndMin == timeToMinutes(existingEnd)
  IN  \/ (currentStartMin >= existingEndMin /\ currentStartMin < existingEndMin + 30)
      \/ (existingStartMin >= currentEndMin /\ existingStartMin < currentEndMin + 30)

isFacultyAvailable(facultyId, days, startTime, endTime, semester, usedSlotsMap, faculty) ==
  LET facultySlots == usedSlotsMap[facultyId]
  IN  /\ isFacultyAvailableOnDays(faculty, days)
      /\ isFacultyAvailableAtTime(faculty, startTime, endTime)
      /\ \A i \in 1..Len(days) : \A existingSlot \in facultySlots :
           (existingSlot[1] = semester /\ existingSlot[2] = days[i])
             => /\ ~timeRangesOverlap(startTime, endTime, existingSlot[3], existingSlot[4])
                /\ ~breakViolation(startTime, endTime, existingSlot[3], existingSlot[4])

\* a placement without any cohort check
hasProgramYearOverlapNever(programYearSlots, day1, day2, startTime, endTime) == FALSE

\* a cohort check that only looks for the exact day-start-end key
hasProgramYearOverlapExact(programYearSlots, day1, day2, startTime, endTime) ==
  \/ <<day1, startTime, endTime>> \in programYearSlots
  \/ <<day2, startTime, endTime>> \in programYearSlots

\* the program-year (cohort) check of scheduleSubjectSessions: exact key hit or any overlap
hasProgramYearOverlap(programYearSlots, day1, day2, startTime, endTime) ==
  \/ <<day1, startTime, endTime>> \in programYearSlots
  \/ <<day2, startTime, endTime>> \in programYearSlots
  \/ \E existingSlot \in programYearSlots :
       /\ existingSlot[1] \in {day1, day2}
       /\ timeRangesOverlap(startTime, endTime, existingSlot[2], existingSlot[3])

\* toLowerCase().includes('lab') on the room names of the model
includesLab(name) == name \in {"LAB1", "ComLab", "Lab 2"}

\* a room choice that takes every room for every session type
roomCandidatesAnyRoom(type, roomList) == roomList

roomCandidates(type, roomList) ==
  LET isLab(r) == includesLab(r.name)
      notLab(r) == ~includesLab(r.name)
      candidates == IF type = "Laboratory" THEN SelectSeq(roomList, isLab) ELSE SelectSeq(roomList, notLab)
  IN  IF Len(candidates) > 0 THEN candidates ELSE roomList

programYearKeyOf(course, semester) == << course.programCode, course.yearLevel, semester >>

subjectKeyOf(course, semester) == << course.subjectCode, semester >>

\* the day pairs of the session type, whatever days the subject already uses
dayPairsToTryUnfiltered(type, alreadyUsedDays) ==
  IF type = "Laboratory" THEN LAB_DAY_PAIRS ELSE LECTURE_DAY_PAIRS

\* a choice of day pairs that ignores the session type and the days the subject already uses
dayPairsToTryLectureOrder(type, alreadyUsedDays) == LECTURE_DAY_PAIRS

dayPairsToTry(type, alreadyUsedDays) ==
  LET unused(pair) == ~(\E i \in 1..Len(pair) : pair[i] \in Range(alreadyUsedDays))
  IN  SelectSeq(IF type = "Laboratory" THEN LAB_DAY_PAIRS ELSE LECTURE_DAY_PAIRS, unused)

alreadyTeaching(scheduledSubjectsList, course, facultyId, semester) ==
  \E i \in 1..Len(scheduledSubjectsList) :
    /\ scheduledSubjectsList[i].subjectCode = course.subjectCode
    /\ scheduledSubjectsList[i].facultyId = facultyId
    /\ scheduledSubjectsList[i].semester = semester

\* the slot table walked from the latest start to the earliest
timeSlotsForLatestFirst(hoursPerSession) ==
  LET table == IF hoursPerSession = 60 THEN TIME_SLOTS_1H ELSE TIME_SLOTS_1_5H
  IN  [i \in 1..Len(table) |-> table[Len(table) + 1 - i]]

timeSlotsFor(hoursPerSession) == IF hoursPerSession = 60 THEN TIME_SLOTS_1H ELSE TIME_SLOTS_1_5H

\* ------------------------------------------------------------------------
\* Placement search of scheduleSubjectSessions (paired sessions): the loops
\* faculty -> day pair -> time slot -> room, first feasible tuple wins
\* ------------------------------------------------------------------------
NoPlacement ==
  [found |-> FALSE, faculty |-> 0, dayPair |-> 0, slot |-> 0, room |-> 0]

findPairedPlacement(course, sessionRule, roomList, facultyWorkloadMap, usedSlotsMap, usedRoomsMap, usedProgramYearSlotsMap, scheduledSubjectsList, semester, instructorMaxUnitsMap, usedDayPairsMap) ==
  LET type == sessionRule.type
      timeSlots == timeSlotsFor(sessionRule.hoursPerSession)
      durationMinutes == sessionRule.hoursPerSession
      programYearSlots == usedProgramYearSlotsMap[programYearKeyOf(course, semester)]
      pairs == dayPairsToTry(type, usedDayPairsMap[subjectKeyOf(course, semester)])
      recommendedFaculty == course.recommendedFaculty
      allRooms == roomCandidates(type, roomList)
      startOf(si) == timeSlots[si].start
      endOf(si) == minutesToTime(timeToMinutes(startOf(si)) + durationMinutes)
      \* the workload check: skip this faculty if overloaded
      overloaded(fi) ==
        LET facultyId == toString(recommendedFaculty[fi].id)
            facultyMaxUnits == IF instructorMaxUnitsMap[facultyId] # 0
                                 THEN instructorMaxUnitsMap[facultyId] ELSE DefaultMaxUnits
        IN  /\ ~alreadyTeaching(scheduledSubjectsList, course, facultyId, semester)
            /\ facultyWorkloadMap[facultyId] + course.units > facultyMaxUnits
      \* the checks of one time slot before the rooms are tried
      slotUsable(fi, pi, si) ==
        /\ isValidTimeSlot(startOf(si), endOf(si))
        /\ isFacultyAvailableAtTime(recommendedFaculty[fi], startOf(si), endOf(si))
        /\ ~hasProgramYearOverlap(programYearSlots, pairs[pi][1], pairs[pi][2], startOf(si), endOf(si))
        /\ isFacultyAvailable(toString(recommendedFaculty[fi].id), pairs[pi], startOf(si), endOf(si),
                              semester, usedSlotsMap, recommendedFaculty[fi])
      RECURSIVE tryRooms(_, _, _), trySlots(_, _, _), tryDayPairs(_, _), tryFaculty(_)
      \* for (const room of allRooms): index of the first free room, 0 when none
      tryRooms(pi, si, k) ==
        IF k > Len(allRooms) THEN 0
        ELSE IF isRoomAvailable(toString(allRooms[k].id), pairs[pi], startOf(si), endOf(si),
                                semester, usedRoomsMap)
          THEN k
          ELSE tryRooms(pi, si, k + 1)
      \* for (const slot of timeSlots)
      trySlots(fi, pi, si) ==
        IF si > Len(timeSlots) THEN NoPlacement
        ELSE IF slotUsable(fi, pi, si) /\ tryRooms(pi, si, 1) # 0
          THEN [found |-> TRUE, faculty |-> recommendedFaculty[fi], dayPair |-> pairs[pi],
                slot |-> Slot(startOf(si), endOf(si)), room |-> allRooms[tryRooms(pi, si, 1)]]
          ELSE trySlots(fi, pi, si + 1)
      \* for (const dayPair of dayPairsToTry)
      tryDayPairs(fi, pi) ==
        IF pi > Len(pairs) THEN NoPlacement
        ELSE IF isFacultyAvailableOnDays(recommendedFaculty[fi], pairs[pi]) /\ trySlots(fi, pi, 1).found
          THEN trySlots(fi, pi, 1)
          ELSE tryDayPairs(fi, pi + 1)
      \* for (const faculty of recommendedFaculty)
      tryFaculty(fi) ==
        IF fi > Len(recommendedFaculty) THEN NoPlacement
        ELSE IF ~overloaded(fi) /\ tryDayPairs(fi, 1).found
          THEN tryDayPairs(fi, 1)
          ELSE tryFaculty(fi + 1)
  IN  IF Len(pairs) = 0 THEN NoPlacement ELSE tryFaculty(1)

\* a placement that returns the session of the first day only
sessionsOfFirstDay(placement) ==
  IF ~placement.found THEN << >>
  ELSE << [day |-> placement.dayPair[1],
           startTime |-> placement.slot.start,
           endTime |-> placement.slot.end,
           facultyId |-> toString(placement.faculty.id),
           facultyName |-> placement.faculty.lastname,
           roomId |-> toString(placement.room.id),
           roomName |-> placement.room.name] >>

\* a pair whose second session is put on the first day again
sessionsOfSameDay(placement) ==
  IF ~placement.found THEN << >>
  ELSE [i \in 1..2 |->
          [day |-> placement.dayPair[1],
           startTime |-> placement.slot.start,
           endTime |-> placement.slot.end,
           facultyId |-> toString(placement.faculty.id),
           facultyName |-> placement.faculty.lastname,
           roomId |-> toString(placement.room.id),
           roomName |-> placement.room.name]]

\* the ScheduledSession records scheduleSubjectSessions returns: both days of the
\* pair, or none (the single-session branch commits nothing)
sessionsOf(placement) ==
  IF ~placement.found THEN << >>
  ELSE [i \in 1..2 |->
          [day |-> placement.dayPair[i],
           startTime |-> placement.slot.start,
           endTime |-> placement.slot.end,
           facultyId |-> toString(placement.faculty.id),
           facultyName |-> placement.faculty.lastname,
           roomId |-> toString(placement.room.id),
           roomName |-> placement.room.name]]

scheduleSubjectSessions(course, sessionRule, roomList, facultyWorkloadMap, usedSlotsMap, usedRoomsMap, usedProgramYearSlotsMap, scheduledSubjectsList, semester, instructorMaxUnitsMap, usedDayPairsMap) ==
  IF sessionRule.sessionsPerWeek = 2
    THEN findPairedPlacement(course, sessionRule, roomList, facultyWorkloadMap, usedSlotsMap, usedRoomsMap,
                             usedProgramYearSlotsMap, scheduledSubjectsList, semester,
                             instructorMaxUnitsMap, usedDayPairsMap)
    ELSE NoPlacement

\* the record generateSchedule pushes on scheduledSubjects for one returned session
scheduledSubjectOf(course, rule, session, semester, curriculumYear) ==
  [id |-> << course.id, rule.type, session.day >>,
   subjectId |-> toString(course.id),
   subjectCode |-> course.subjectCode,
   facultyId |-> session.facultyId,
   facultyName |-> session.facultyName,
   roomId |-> session.roomId,
   roomName |-> session.roomName,
   day |-> session.day,
   startTime |-> session.startTime,
   endTime |-> session.endTime,
   units |-> IF course.units # 0 THEN course.units ELSE 3,
   lec |-> course.lec,
   lab |-> course.lab,
   yearLevel |-> course.yearLevel,
   semester |-> semester,
   program |-> course.programCode,
   type |-> rule.type,
   curriculumYear |-> curriculumYear,
   academicYear |-> curriculumYear]

\* ------------------------------------------------------------------------
\* Final ordering of the scheduled sessions
\* ------------------------------------------------------------------------
typeOrder(type) == IF type = "Lecture" THEN 1 ELSE IF type = "Laboratory" THEN 2 ELSE 3

dayIndex(day) == IF \E i \in 1..Len(DAYS) : DAYS[i] = day
                   THEN (CHOOSE i \in 1..Len(DAYS) : DAYS[i] = day) - 1
                   ELSE 0 - 1

\* the comparator of scheduledSubjects.sort: negative when a sorts before b
compareScheduled(a, b) ==
  IF localeCompare(a.subjectCode, b.subjectCode) # 0 THEN localeCompare(a.subjectCode, b.subjectCode)
  ELSE IF localeCompare(a.program, b.program) # 0 THEN localeCompare(a.program, b.program)
  ELSE IF localeCompare(a.yearLevel, b.yearLevel) # 0 THEN localeCompare(a.yearLevel, b.yearLevel)
  ELSE IF localeCompare(a.semester, b.semester) # 0 THEN localeCompare(a.semester, b.semester)
  ELSE IF a.type # b.type THEN typeOrder(a.type) - typeOrder(b.type)
  ELSE IF dayIndex(a.day) # dayIndex(b.day) THEN dayIndex(a.day) - dayIndex(b.day)
  ELSE timeToMinutes(a.startTime) - timeToMinutes(b.startTime)

sortScheduled(list) ==
  LET position(i) == 1 + Cardinality({j \in 1..Len(list) :
                                        \/ compareScheduled(list[j], list[i]) < 0
                                        \/ (compareScheduled(list[j], list[i]) = 0 /\ j < i)})
  IN  [k \in 1..Len(list) |-> list[CHOOSE i \in 1..Len(list) : position(i) = k]]

\* ------------------------------------------------------------------------
\* The stored data of the model
\* ------------------------------------------------------------------------
User(uid, last, userRole, userStatus, desig, spec, prev, years, slots, days) ==
  [id |-> uid, lastname |-> last, role |-> userRole, status |-> userStatus,
   designation |-> desig, specialization |-> spec, previousSubjects |-> prev,
   yearsOfExperience |-> years, preferredTimeSlots |-> slots, availableDays |-> days]

\* the preference declarations instructor 1 may have stored: none, or the days
\* Tuesday/Thursday with the window ["start:08:00", "end:17:00"]
PreferenceChoices ==
  { [slots |-> Null, days |-> Null],
    [slots |-> Arr(<< StartItem(T(8, 0)), EndItem(T(17, 0)) >>), days |-> Arr(<< "Tuesday", "Thursday" >>)] }

UsersOf(role1, pref) ==
  << User(1, "Santos", role1, "APPROVED", "Regular Faculty", Arr(<< "Programming" >>),
          Arr(<< "CS101" >>), 10, pref.slots, pref.days),
     \* instructor 2 declares the window "1:00 PM - 5:00 PM" and an empty list of days
     User(2, "Cruz", "FACULTY", "APPROVED", "Part-time", Arr(<< " programming ", "Networking" >>),
          Null, 3, Str(<< RangeItem(T(1, 0), "PM", T(5, 0), "PM") >>), Arr(<< >>)),
     User(3, "Reyes", "FACULTY", "PENDING", "Regular", Arr(<< "Programming", "Networking" >>),
          Null, 25, Null, Null) >>

\* a faculty room of seven approved instructors for the ranking
RankPool ==
  << User(1, "Santos", "FACULTY", "APPROVED", "Regular Faculty", Arr(<< "Programming" >>),
          Arr(<< "CS101" >>), 10, Null, Null),
     User(2, "Cruz", "FACULTY", "APPROVED", "Part-time", Arr(<< " programming ", "Networking" >>),
          Null, 3, Null, Null),
     User(3, "Reyes", "FACULTY", "APPROVED", "Regular", Arr(<< "Programming", "Networking" >>),
          Null, 25, Null, Null),
     User(4, "Abad", "FACULTY", "APPROVED", "Part-time", Arr(<< "Programming" >>),
          Null, 3, Null, Null),
     User(5, "Dizon", "FACULTY", "APPROVED", "Part-time", Arr(<< "Programming" >>),
          Null, 12, Null, Null),
     User(6, "Garcia", "DEPARTMENT_HEAD", "APPROVED", "Regular", Arr(<< "Networking" >>),
          Null, 5, Null, Null),
     User(7, "Lim", "FACULTY", "APPROVED", "Part-time", Null,
          Null, 8, Null, Null) >>

\* the user tables of the ranking: up to maxLen users of the pool, by id ascending or descending
RankUserLists(maxLen) ==
  LET ascending(ids) == SelectSeq(RankPool, LAMBDA u : u.id \in ids)
      descending(ids) == [i \in 1..Len(ascending(ids)) |-> ascending(ids)[Len(ascending(ids)) + 1 - i]]
  IN  UNION { {ascending(ids), descending(ids)} :
              ids \in {x \in SUBSET (1..Len(RankPool)) : Cardinality(x) <= maxLen} }

Room(rid, rname) == [id |-> rid, name |-> rname]

RoomChoices ==
  { << Room(1, "R1"), Room(2, "LAB1") >>,
    << Room(1, "R1"), Room(2, "R2") >> }

\* subject.tags by subject code
SubjectTags(code) ==
  CASE code = "CS101" -> Arr(<< "Programming" >>)
    [] code = "CS102" -> Arr(<< "Programming", "Networking" >>)
    [] code = "IT201" -> Arr(<< "Networking" >>)
    [] code = "IT202" -> Arr(<< "Networking" >>)
    [] OTHER -> Null

CurriculumCourse(cid, code, prog, year, lecUnits, labUnits, totalUnits) ==
  [id |-> cid, subjectCode |-> code, subjectDescription |-> code, programCode |-> prog,
   yearLevel |-> year, lec |-> lecUnits, lab |-> labUnits, units |-> totalUnits,
   curriculumYear |-> "2024-2025", period |-> "1st Semester"]

Catalog ==
  { CurriculumCourse(1, "CS101", "BSCS", "1st Year", 3, 0, 3),
    CurriculumCourse(2, "CS102", "BSCS", "1st Year", 3, 1, 4),
    CurriculumCourse(3, "CS101", "BSIT", "1st Year", 2, 0, 2),
    CurriculumCourse(4, "IT201", "BSCS", "2nd Year", 3, 0, 3),
    CurriculumCourse(5, "IT202", "BSIT", "1st Year", 3, 1, 4),
    CurriculumCourse(6, "GE101", "BSCS", "1st Year", 3, 0, 3) }

\* the curriculum tables of the model: up to maxLen distinct catalog rows, in any order
CourseLists(maxLen) ==
  UNION { { list \in [1..n -> Catalog] : \A i, j \in 1..n : i # j => list[i].id # list[j].id } :
          n \in 1..maxLen }

\* ------------------------------------------------------------------------
\* State
\* ------------------------------------------------------------------------
VARIABLES
  db,                      \* stored users, rooms, curriculum courses, totalUnits configuration
  req,                     \* the query of the generate requests (both requests carry the same query)
  requests,                \* the number of generate requests that arrive
  pc,                      \* position of each generateSchedule call
  cpu,                     \* the call inside its synchronous placement block, 0 when none
  instructors,             \* per call: result of UserService.getInstructors()
  rooms,                   \* per call: result of prisma.room.findMany()
  instructorMaxUnits,      \* per call: Map facultyId -> max units
  subjectsWithData,        \* per call: courses with tags and recommendedFaculty
  facultyWorkload,         \* per call: Map facultyId -> units
  usedSlots,               \* per call: Map facultyId -> Set of semester|day|start|end
  usedRooms,               \* per call: Map roomId -> Set of semester|day|start|end
  usedProgramYearSlots,    \* per call: Map program_year_semester -> Set of day|start|end
  usedDayPairsForSubject,  \* per call: Map subjectCode_semester -> days
  scheduledSubjects,       \* per call: the sessions pushed so far
  ci,                      \* per call: index of the course being processed
  ri,                      \* per call: index of the rule being processed
  response,                \* per call: the HTTP response
  subjectSchedule,         \* the persisted timetable (table subject_schedule)
  nextId,                  \* the next autoincrement id of subject_schedule
  concurrent,              \* whether the client sends a save before the previous one was answered
  savePc,                  \* position of each saveLatestSchedule call
  saveBody,                \* per save call: the subjects of the request body
  saveKey,                 \* per save call: curriculumYear and semester of subjects[0]
  saveResponse,            \* per save call: the HTTP response
  storeAtStart,            \* per save call: the persisted timetable when the call began
  rulesArgs,               \* lecUnits, labUnits and department of a calculateSessionRules call
  rulesResult,             \* the rules the call returned
  itemPc,                  \* position of each createScheduleItem / updateScheduleItem call
  itemBody,                \* per item call: the handler, the id parameter and the request body
  itemResponse             \* per item call: the HTTP status of the response

genVars ==
  << db, req, requests, pc, cpu, instructors, rooms, instructorMaxUnits, subjectsWithData, facultyWorkload,
     usedSlots, usedRooms, usedProgramYearSlots, usedDayPairsForSubject, scheduledSubjects,
     ci, ri, response >>

saveVars ==
  << subjectSchedule, nextId, concurrent, savePc, saveBody, saveKey, saveResponse, storeAtStart >>

ruleVars == << rulesArgs, rulesResult >>

itemVars == << itemPc, itemBody, itemResponse >>

vars == << genVars, saveVars, ruleVars, itemVars >>

ItemCalls == {1, 2}

SaveCalls == {1, 2}

Runs == {1, 2}

FacultyIds == {toString(i) : i \in 1..7}

RoomIds == {toString(i) : i \in 1..2}

ProgramYearKeys == {"BSCS", "BSIT"} \X {"1st Year", "2nd Year"} \X {"1st Semester"}

SubjectKeys == {"CS101", "CS102", "IT201", "IT202", "GE101"} \X {"1st Semester"}

\* ------------------------------------------------------------------------
\* Data access
\* ------------------------------------------------------------------------
\* UserService.getInstructors: approved FACULTY / DEPARTMENT_HEAD / CAMPUS_ADMIN users, with the
\* selected columns only (previousSubjects, yearsOfExperience, preferredTimeSlots and the
\* availability columns are not selected, so they are undefined on the result)
getInstructors(users) ==
  LET wanted(u) == u.role \in {"FACULTY", "DEPARTMENT_HEAD", "CAMPUS_ADMIN"} /\ u.status = "APPROVED"
      found == SelectSeq(users, wanted)
  IN  [i \in 1..Len(found) |->
         [found[i] EXCEPT !.previousSubjects = Null, !.yearsOfExperience = 0,
                          !.preferredTimeSlots = Null, !.availableDays = Null]]

\* prisma.curriculumCourse.findMany({ where: whereClause })
\* a course query without the program filter
findCurriculumCoursesAnyProgram(courses, curriculumYear, semester, program) ==
  LET matches(c) == c.curriculumYear = curriculumYear /\ c.period = semester
  IN  SelectSeq(courses, matches)

findCurriculumCourses(courses, curriculumYear, semester, program) ==
  LET matches(c) == /\ c.curriculumYear = curriculumYear
                    /\ c.period = semester
                    /\ (program # "" /\ program # "all") => c.programCode = program
  IN  SelectSeq(courses, matches)

\* instructorMaxUnits: 6 for CAMPUS_ADMIN, the configured default otherwise (0: no entry)
buildInstructorMaxUnits(instructorList, totalUnits) ==
  LET defaultMaxUnits == IF totalUnits # 0 THEN totalUnits ELSE DefaultMaxUnits
  IN  [id \in FacultyIds |->
         IF \E i \in 1..Len(instructorList) : toString(instructorList[i].id) = id
           THEN LET instructor == instructorList[CHOOSE i \in 1..Len(instructorList) :
                                                   toString(instructorList[i].id) = id]
                IN  IF instructor.role = "CAMPUS_ADMIN" THEN CampusAdminMaxUnits ELSE defaultMaxUnits
           ELSE 0]

\* a generateSchedule call keeps a workload map from an earlier call
sharedFacultyWorkload ==
  IF \E q \in Runs : pc[q] = "done"
    THEN facultyWorkload[CHOOSE q \in Runs : pc[q] = "done"]
    ELSE [id \in FacultyIds |-> 0]

\* const facultyWorkload = new Map<string, number>()
newFacultyWorkload == [id \in FacultyIds |-> 0]

\* the position (course index, rule index) of the next rule at or after course c, rule k
rulesOf(course) == calculateSessionRules(course.lec, course.lab, course.programCode)

\* a loop that takes the rule it has just handled again
nextPositionRetry(courses, c, k) ==
  IF k = 1 THEN IF c <= Len(courses) /\ k <= Len(rulesOf(courses[c])) THEN << c, k >>
                ELSE << Len(courses) + 1, 1 >>
  ELSE << c, k - 1 >>

nextPosition(courses, c, k) ==
  IF c <= Len(courses) /\ k <= Len(rulesOf(courses[c])) THEN << c, k >>
  ELSE LET later == {j \in (c + 1)..Len(courses) : Len(rulesOf(courses[j])) > 0}
       IN  IF later = {} THEN << Len(courses) + 1, 1 >> ELSE << SetMin(later), 1 >>

\* ------------------------------------------------------------------------
\* generateSchedule
\* ------------------------------------------------------------------------
NoResponse == [status |-> 0, subjects |-> << >>]

\* the query of the generate calls of the model
DefaultQuery == [curriculumYear |-> "2024-2025", semester |-> "1st Semester", program |-> ""]

\* the queries a client may send; "" is an absent parameter
Queries ==
  [curriculumYear : {"2024-2025", "2025-2026", ""},
   semester : {"1st Semester", "2nd Semester", ""},
   program : {"", "all", "BSIT"}]

\* the state before the first request, for the stored data and the queries given
InitGenData(calls, userLists, roomLists, courseLists, unitChoices, queries) ==
  /\ db \in [users : userLists,
             rooms : roomLists,
             curriculumCourses : courseLists,
             totalUnits : unitChoices]
  /\ req \in queries
  /\ requests = calls
  /\ pc = [r \in Runs |-> "idle"]
  /\ cpu = 0
  /\ instructors = [r \in Runs |-> << >>]
  /\ rooms = [r \in Runs |-> << >>]
  /\ instructorMaxUnits = [r \in Runs |-> [id \in FacultyIds |-> 0]]
  /\ subjectsWithData = [r \in Runs |-> << >>]
  /\ facultyWorkload = [r \in Runs |-> [id \in FacultyIds |-> 0]]
  /\ usedSlots = [r \in Runs |-> [id \in FacultyIds |-> {}]]
  /\ usedRooms = [r \in Runs |-> [id \in RoomIds |-> {}]]
  /\ usedProgramYearSlots = [r \in Runs |-> [k \in ProgramYearKeys |-> {}]]
  /\ usedDayPairsForSubject = [r \in Runs |-> [k \in SubjectKeys |-> << >>]]
  /\ scheduledSubjects = [r \in Runs |-> << >>]
  /\ ci = [r \in Runs |-> 1]
  /\ ri = [r \in Runs |-> 1]
  /\ response = [r \in Runs |-> NoResponse]

InitGenQueries(calls, maxLen, queries) ==
  InitGenData(calls,
              {UsersOf(role1, pref) : role1 \in {"FACULTY", "CAMPUS_ADMIN"}, pref \in PreferenceChoices},
              RoomChoices, CourseLists(maxLen), {0, 3}, queries)

InitGen(calls, maxLen) == InitGenQueries(calls, maxLen, {DefaultQuery})

\* lines 1038-1046: the query is validated (the calls are numbered in their order of arrival)
GenStart(r) ==
  /\ pc[r] = "idle"
  /\ cpu = 0
  /\ r <= requests
  /\ \A q \in Runs : q < r => pc[q] # "idle"
  /\ IF req.curriculumYear = "" \/ req.semester = ""
       THEN /\ pc' = [pc EXCEPT ![r] = "done"]
            /\ response' = [response EXCEPT ![r] = [status |-> 400, subjects |-> << >>]]
       ELSE /\ pc' = [pc EXCEPT ![r] = "fetching"]
            /\ UNCHANGED response
  /\ UNCHANGED << db, req, requests, cpu, instructors, rooms, instructorMaxUnits, subjectsWithData, facultyWorkload,
                  usedSlots, usedRooms, usedProgramYearSlots, usedDayPairsForSubject, scheduledSubjects,
                  ci, ri >>
  /\ UNCHANGED << saveVars, ruleVars, itemVars >>

\* lines 1051-1118: the reads, the tracking tables, the ranked candidates of every course; the
\* code after the last await runs to the response without another call in between
GenFetch(r) ==
  /\ pc[r] = "fetching"
  /\ cpu = 0
  /\ LET instructorList == getInstructors(db.users)
         curriculumCourses == findCurriculumCourses(db.curriculumCourses, req.curriculumYear,
                                                    req.semester, req.program)
         maxUnitsMap == buildInstructorMaxUnits(instructorList, db.totalUnits)
         workload == newFacultyWorkload
         enriched == [i \in 1..Len(curriculumCourses) |->
                        LET courseWithTags == [tags |-> SubjectTags(curriculumCourses[i].subjectCode)]
                                              @@ curriculumCourses[i]
                        IN  [recommendedFaculty |->
                               findBestFacultyMatchesWithRoles(courseWithTags, instructorList, workload,
                                                               maxUnitsMap, MaxMatches)]
                            @@ courseWithTags]
     IN  \E courses \in {enriched} : \E first \in {nextPosition(courses, 1, 1)} :
         IF Len(curriculumCourses) = 0
           THEN /\ cpu' = 0
                /\ pc' = [pc EXCEPT ![r] = "done"]
                /\ response' = [response EXCEPT ![r] = [status |-> 404, subjects |-> << >>]]
                /\ UNCHANGED << instructors, rooms, instructorMaxUnits, subjectsWithData, facultyWorkload,
                                usedSlots, usedRooms, usedProgramYearSlots, usedDayPairsForSubject,
                                scheduledSubjects, ci, ri >>
           ELSE /\ cpu' = r
                /\ pc' = [pc EXCEPT ![r] = "placing"]
                /\ instructors' = [instructors EXCEPT ![r] = instructorList]
                /\ rooms' = [rooms EXCEPT ![r] = db.rooms]
                /\ instructorMaxUnits' = [instructorMaxUnits EXCEPT ![r] = maxUnitsMap]
                /\ facultyWorkload' = [facultyWorkload EXCEPT ![r] = workload]
                /\ usedSlots' = [usedSlots EXCEPT ![r] = [id \in FacultyIds |-> {}]]
                /\ usedRooms' = [usedRooms EXCEPT ![r] = [id \in RoomIds |-> {}]]
                /\ usedProgramYearSlots' = [usedProgramYearSlots EXCEPT ![r] = [k \in ProgramYearKeys |-> {}]]
                /\ usedDayPairsForSubject' = [usedDayPairsForSubject EXCEPT ![r] = [k \in SubjectKeys |-> << >>]]
                /\ scheduledSubjects' = [scheduledSubjects EXCEPT ![r] = << >>]
                /\ subjectsWithData' = [subjectsWithData EXCEPT ![r] = courses]
                /\ ci' = [ci EXCEPT ![r] = first[1]]
                /\ ri' = [ri EXCEPT ![r] = first[2]]
                /\ UNCHANGED response
  /\ UNCHANGED << db, req, requests >>
  /\ UNCHANGED << saveVars, ruleVars, itemVars >>

\* lines 1131-1180 for one rule of one course: scheduleSubjectSessions and the push of its sessions
PlaceRule(r) ==
  /\ pc[r] = "placing"
  /\ cpu = r
  /\ ci[r] <= Len(subjectsWithData[r])
  /\ LET course == subjectsWithData[r][ci[r]]
         rule == rulesOf(course)[ri[r]]
         semester == req.semester
         next == nextPosition(subjectsWithData[r], ci[r], ri[r] + 1)
     IN  \E placement \in {scheduleSubjectSessions(course, rule, rooms[r], facultyWorkload[r], usedSlots[r],
                                                   usedRooms[r], usedProgramYearSlots[r], scheduledSubjects[r],
                                                   semester, instructorMaxUnits[r],
                                                   usedDayPairsForSubject[r])} :
         \E sessions \in {sessionsOf(placement)} :
         /\ IF placement.found
              THEN LET facultyId == toString(placement.faculty.id)
                       roomId == toString(placement.room.id)
                       startTime == placement.slot.start
                       endTime == placement.slot.end
                       day1 == placement.dayPair[1]
                       day2 == placement.dayPair[2]
                       programYearKey == programYearKeyOf(course, semester)
                       subjectKey == subjectKeyOf(course, semester)
                       wasTeaching == alreadyTeaching(scheduledSubjects[r], course, facultyId, semester)
                   IN  /\ usedSlots' = [usedSlots EXCEPT ![r][facultyId] =
                                          @ \cup {<< semester, day1, startTime, endTime >>,
                                                  << semester, day2, startTime, endTime >>}]
                       /\ usedRooms' = [usedRooms EXCEPT ![r][roomId] =
                                          @ \cup {<< semester, day1, startTime, endTime >>,
                                                  << semester, day2, startTime, endTime >>}]
                       /\ usedProgramYearSlots' = [usedProgramYearSlots EXCEPT ![r][programYearKey] =
                                                     @ \cup {<< day1, startTime, endTime >>,
                                                             << day2, startTime, endTime >>}]
                       /\ usedDayPairsForSubject' = [usedDayPairsForSubject EXCEPT ![r][subjectKey] =
                                                       @ \o << day1, day2 >>]
                       /\ facultyWorkload' = [facultyWorkload EXCEPT ![r][facultyId] =
                                                IF wasTeaching THEN @ ELSE @ + course.units]
              ELSE UNCHANGED << usedSlots, usedRooms, usedProgramYearSlots, usedDayPairsForSubject,
                                facultyWorkload >>
         /\ scheduledSubjects' = [scheduledSubjects EXCEPT ![r] =
                                    @ \o [i \in 1..Len(sessions) |->
                                            scheduledSubjectOf(course, rule, sessions[i], semester,
                                                               req.curriculumYear)]]
         /\ ci' = [ci EXCEPT ![r] = next[1]]
         /\ ri' = [ri EXCEPT ![r] = next[2]]
  /\ UNCHANGED << db, req, requests, pc, cpu, instructors, rooms, instructorMaxUnits, subjectsWithData, response >>
  /\ UNCHANGED << saveVars, ruleVars, itemVars >>

\* ------------------------------------------------------------------------
\* Validation summary and the GenerationResult
\* ------------------------------------------------------------------------
\* the keys `${subjectCode}_${program}_${yearLevel}` of the subject groups
subjectGroupKeys(sorted) ==
  {<< sorted[i].subjectCode, sorted[i].program, sorted[i].yearLevel >> : i \in 1..Len(sorted)}

\* the positions of the sessions of one subject group
groupSessions(sorted, key) ==
  {i \in 1..Len(sorted) : << sorted[i].subjectCode, sorted[i].program, sorted[i].yearLevel >> = key}

\* the summed duration of the sessions at the given positions, in minutes
RECURSIVE actualMinutes(_, _)
actualMinutes(sorted, positions) ==
  IF positions = {} THEN 0
  ELSE LET i == CHOOSE x \in positions : TRUE
       IN  (timeToMinutes(sorted[i].endTime) - timeToMinutes(sorted[i].startTime))
             + actualMinutes(sorted, positions \ {i})

\* Math.abs(expectedHours - actualHours) > 0.1, with expectedHours = lec * 1 + lab * 3 taken
\* from the first session of the group
hoursMismatch(sorted, key) ==
  LET positions == groupSessions(sorted, key)
      first == sorted[SetMin(positions)]
      expected == (first.lec * 1 + first.lab * 3) * 60
      actual == actualMinutes(sorted, positions)
      diff == IF expected >= actual THEN expected - actual ELSE actual - expected
  IN  diff > 6

\* the pairs of sessions of one cohort that overlap on a day
cohortConflicts(sorted) ==
  {p \in (1..Len(sorted)) \X (1..Len(sorted)) :
     /\ p[1] < p[2]
     /\ sorted[p[1]].program = sorted[p[2]].program
     /\ sorted[p[1]].yearLevel = sorted[p[2]].yearLevel
     /\ sorted[p[1]].semester = sorted[p[2]].semester
     /\ sorted[p[1]].day = sorted[p[2]].day
     /\ timeRangesOverlap(sorted[p[1]].startTime, sorted[p[1]].endTime,
                          sorted[p[2]].startTime, sorted[p[2]].endTime)}

totalErrors(sorted) ==
  Cardinality({key \in subjectGroupKeys(sorted) : hoursMismatch(sorted, key)})
    + Cardinality(cohortConflicts(sorted))

\* a score that takes ten points for every error
optimizationScoreTenPerError(errors) ==
  IF errors = 0 THEN 100 ELSE IF 100 - errors * 10 > 0 THEN 100 - errors * 10 ELSE 0

\* totalErrors === 0 ? 100 : Math.max(0, 100 - (totalErrors * 5))
optimizationScoreOf(errors) ==
  IF errors = 0 THEN 100 ELSE IF 100 - errors * 5 > 0 THEN 100 - errors * 5 ELSE 0

\* the object of lines 1336-1346, with the HTTP status of the answer
generatedSchedule(sorted, instructorList) ==
  [status |-> 200,
   conflicts |-> << >>,
   subjects |-> sorted,
   totalSubjects |-> Len(sorted),
   totalFaculty |-> Len(instructorList),
   faculty |-> {sorted[i].facultyName : i \in 1..Len(sorted)},
   optimizationScore |-> optimizationScoreOf(totalErrors(sorted))]

\* lines 1183-1348: the final sort, the validation summary and the response
GenFinish(r) ==
  /\ pc[r] = "placing"
  /\ cpu = r
  /\ ci[r] > Len(subjectsWithData[r])
  /\ \E sortedScheduledSubjects \in {sortScheduled(scheduledSubjects[r])} :
       /\ scheduledSubjects' = [scheduledSubjects EXCEPT ![r] = sortedScheduledSubjects]
       /\ response' = [response EXCEPT ![r] = generatedSchedule(sortedScheduledSubjects, instructors[r])]
  /\ pc' = [pc EXCEPT ![r] = "done"]
  /\ cpu' = 0
  /\ UNCHANGED << db, req, requests, instructors, rooms, instructorMaxUnits, subjectsWithData, facultyWorkload,
                  usedSlots, usedRooms, usedProgramYearSlots, usedDayPairsForSubject, ci, ri >>
  /\ UNCHANGED << saveVars, ruleVars, itemVars >>

\* ------------------------------------------------------------------------
\* saveLatestSchedule
\* ------------------------------------------------------------------------
\* a missing property of a request item
Undefined == "undefined"

SaveItem(cy, ay, sem) == [curriculumYear |-> cy, academicYear |-> ay, semester |-> sem]

\* the schedule items a save request may carry
SaveItems ==
  { SaveItem("2024-2025", "2024-2025", "1st Semester"),
    SaveItem("2024-2025", "2024-2025", "2nd Semester"),
    SaveItem("2024-2025", "2025-2026", "1st Semester"),
    SaveItem("2024-2025", "2024-2025", Undefined),
    SaveItem(Undefined, Undefined, "1st Semester") }

SaveBodies == UNION { [1..n -> SaveItems] : n \in 0..MaxSaveRows }

\* item.x ?? ''  followed by String(...)
stringOrEmpty(value) == IF value = Undefined THEN "" ELSE value

\* subjects[0]?.curriculumYear || subjects[0]?.academicYear
curriculumYearOf(subjects) ==
  IF subjects[1].curriculumYear # Undefined /\ subjects[1].curriculumYear # ""
    THEN subjects[1].curriculumYear
    ELSE subjects[1].academicYear

\* the where clause of deleteMany with the fields swapped
matchesWhereSwapped(row, academicYear, semester) ==
  /\ row.academicYear = semester
  /\ semester # Undefined => row.semester = academicYear

\* where: { academicYear: curriculumYear, semester: semester }; an undefined value is no filter
matchesWhere(row, academicYear, semester) ==
  /\ row.academicYear = academicYear
  /\ semester # Undefined => row.semester = semester

\* the rows createMany inserts for the request of call c
rowsToCreate(c, subjects, firstId) ==
  { [id |-> firstId + i - 1, call |-> c, pos |-> i,
     academicYear |-> stringOrEmpty(subjects[i].academicYear),
     semester |-> stringOrEmpty(subjects[i].semester)] : i \in 1..Len(subjects) }

NoSaveResponse == [status |-> 0, deletedCount |-> 0, insertedCount |-> 0]

NoKey == [curriculumYear |-> Undefined, semester |-> Undefined]

InitSaveRows(rows, mayOverlap) ==
  /\ subjectSchedule = rows
  /\ nextId = Cardinality(rows) + 1
  /\ concurrent \in mayOverlap
  /\ savePc = [c \in SaveCalls |-> "idle"]
  /\ saveBody = [c \in SaveCalls |-> << >>]
  /\ saveKey = [c \in SaveCalls |-> NoKey]
  /\ saveResponse = [c \in SaveCalls |-> NoSaveResponse]
  /\ storeAtStart = [c \in SaveCalls |-> {}]

InitSave(mayOverlap) == InitSaveRows({}, mayOverlap)

\* lines 1404-1425: the body is read and validated (the calls are numbered in their order of arrival)
SaveStart(c, subjects) ==
  /\ savePc[c] = "idle"
  /\ \A q \in SaveCalls : q < c => savePc[q] # "idle"
  /\ concurrent \/ \A q \in SaveCalls : q < c => savePc[q] = "done"
  /\ saveBody' = [saveBody EXCEPT ![c] = subjects]
  /\ storeAtStart' = [storeAtStart EXCEPT ![c] = subjectSchedule]
  /\ IF Len(subjects) = 0
       THEN /\ savePc' = [savePc EXCEPT ![c] = "done"]
            /\ saveResponse' = [saveResponse EXCEPT ![c].status = 400]
            /\ UNCHANGED saveKey
       ELSE IF curriculumYearOf(subjects) \in {Undefined, ""}
         THEN /\ savePc' = [savePc EXCEPT ![c] = "done"]
              /\ saveResponse' = [saveResponse EXCEPT ![c].status = 400]
              /\ UNCHANGED saveKey
         ELSE /\ savePc' = [savePc EXCEPT ![c] = "deleting"]
              /\ saveKey' = [saveKey EXCEPT ![c] = [curriculumYear |-> curriculumYearOf(subjects),
                                                    semester |-> subjects[1].semester]]
              /\ UNCHANGED saveResponse
  /\ UNCHANGED << subjectSchedule, nextId, concurrent >>
  /\ UNCHANGED << genVars, ruleVars, itemVars >>

\* lines 1429-1434: prisma.subjectSchedule.deleteMany
SaveDelete(c) ==
  /\ savePc[c] = "deleting"
  /\ LET deleted == {row \in subjectSchedule :
                       matchesWhere(row, saveKey[c].curriculumYear, saveKey[c].semester)}
     IN  /\ subjectSchedule' = subjectSchedule \ deleted
         /\ saveResponse' = [saveResponse EXCEPT ![c].deletedCount = Cardinality(deleted)]
  /\ savePc' = [savePc EXCEPT ![c] = "inserting"]
  /\ UNCHANGED << nextId, concurrent, saveBody, saveKey, storeAtStart >>
  /\ UNCHANGED << genVars, ruleVars, itemVars >>

\* lines 1440-1481: prisma.subjectSchedule.createMany, then the response of lines 1483-1491
SaveInsert(c) ==
  /\ savePc[c] = "inserting"
  /\ subjectSchedule' = subjectSchedule \cup rowsToCreate(c, saveBody[c], nextId)
  /\ nextId' = nextId + Len(saveBody[c])
  /\ saveResponse' = [saveResponse EXCEPT ![c].status = 200, ![c].insertedCount = Len(saveBody[c])]
  /\ savePc' = [savePc EXCEPT ![c] = "done"]
  /\ UNCHANGED << concurrent, saveBody, saveKey, storeAtStart >>
  /\ UNCHANGED << genVars, ruleVars, itemVars >>

\* lines 1492-1495: deleteMany or createMany throws, the catch block answers 500
SaveFails(c) ==
  /\ savePc[c] \in {"deleting", "inserting"}
  /\ saveResponse' = [saveResponse EXCEPT ![c].status = 500]
  /\ savePc' = [savePc EXCEPT ![c] = "done"]
  /\ UNCHANGED << subjectSchedule, nextId, concurrent, saveBody, saveKey, storeAtStart >>
  /\ UNCHANGED << genVars, ruleVars, itemVars >>

\* ------------------------------------------------------------------------
\* calculateSessionRules called on its own
\* ------------------------------------------------------------------------
NoRulesResult == [returned |-> FALSE, rules |-> << >>]

\* the departments of the model: absent, and the program codes in both cases
Departments == {"", "BSCS", "bscs", "ACT", "act", "BSIT", "bsit"}

RulesArgs == [lecUnits : 0..MaxUnits, labUnits : 0..MaxUnits, department : Departments]

\* no call of calculateSessionRules on its own
RulesAtRest ==
  /\ rulesArgs = [lecUnits |-> 0, labUnits |-> 0, department |-> ""]
  /\ rulesResult = [returned |-> TRUE, rules |-> << >>]

\* lines 147-222: one call of calculateSessionRules
CalculateRules ==
  /\ ~rulesResult.returned
  /\ rulesResult' = [returned |-> TRUE,
                     rules |-> calculateSessionRules(rulesArgs.lecUnits, rulesArgs.labUnits,
                                                     rulesArgs.department)]
  /\ UNCHANGED rulesArgs
  /\ UNCHANGED << genVars, saveVars, itemVars >>

\* ------------------------------------------------------------------------
\* createScheduleItem and updateScheduleItem
\* ------------------------------------------------------------------------
\* a row of subject_schedule, with the columns the two handlers read
ScheduleRow(rid, body) ==
  [id |-> rid, day |-> body.day, startTime |-> body.startTime, endTime |-> body.endTime,
   yearLevel |-> body.yearLevel, semester |-> body.semester, academicYear |-> body.academicYear,
   program |-> body.program,
   \* facultyId: facultyId || 'TBA'
   facultyId |-> IF body.facultyId = "" THEN "TBA" ELSE body.facultyId]

\* the times a request may ask for: the first slots of the 1.5-hour table
ItemSlots == {TIME_SLOTS_1_5H[i] : i \in 1..MaxItemSlots}

\* the requests of the model: handler, id parameter (0 for a create) and body
ItemBodies ==
  {[handler |-> h[1], id |-> h[2], roomName |-> room, day |-> "Monday",
    startTime |-> slot.start, endTime |-> slot.end, yearLevel |-> "1st Year",
    semester |-> "1st Semester", academicYear |-> "2024-2025", program |-> prog,
    facultyId |-> fid] :
     h \in {<< "create", 0 >>, << "update", 1 >>, << "update", 2 >>},
     room \in {"R1", ""}, slot \in ItemSlots, prog \in {"BSCS", "BSIT"},
     fid \in {"1", "TBA", ""}}

\* the timetable before the requests: one session of instructor 1 with BSCS 1st Year
ItemRows ==
  {[id |-> 1, day |-> "Monday", startTime |-> T(7, 0), endTime |-> T(8, 30),
    yearLevel |-> "1st Year", semester |-> "1st Semester", academicYear |-> "2024-2025",
    program |-> "BSCS", facultyId |-> "1"]}

\* the id filter of the two checks: id: { not: excludeId } for an update, none for a create
notExcluded(row, body) == body.handler = "update" => row.id # body.id

\* lines 265-298: checkScheduleOverlap on the rows of the table
checkScheduleOverlap(rows, body) ==
  \E existing \in rows :
    /\ existing.day = body.day /\ existing.yearLevel = body.yearLevel
    /\ existing.semester = body.semester /\ existing.academicYear = body.academicYear
    /\ existing.program = body.program
    /\ notExcluded(existing, body)
    /\ timeRangesOverlap(body.startTime, body.endTime, existing.startTime, existing.endTime)

\* lines 304-335: checkInstructorConflict on the rows of the table
checkInstructorConflict(rows, body) ==
  \E existing \in rows :
    /\ existing.facultyId = body.facultyId
    /\ existing.day = body.day
    /\ existing.semester = body.semester /\ existing.academicYear = body.academicYear
    /\ notExcluded(existing, body)
    /\ timeRangesOverlap(body.startTime, body.endTime, existing.startTime, existing.endTime)

\* lines 1731-1757 and 1845-1865: the body is read; a create validates its required fields
\* (the calls are numbered in their order of arrival)
ItemStart(q, body) ==
  /\ itemPc[q] = "idle"
  /\ \A p \in ItemCalls : p < q => itemPc[p] # "idle"
  /\ itemBody' = [itemBody EXCEPT ![q] = body]
  /\ IF body.handler = "create"
       THEN IF body.roomName = ""
              THEN /\ itemPc' = [itemPc EXCEPT ![q] = "done"]
                   /\ itemResponse' = [itemResponse EXCEPT ![q] = 400]
              ELSE /\ itemPc' = [itemPc EXCEPT ![q] = "overlap"]
                   /\ UNCHANGED itemResponse
       ELSE /\ itemPc' = [itemPc EXCEPT ![q] = "find"]
            /\ UNCHANGED itemResponse
  /\ UNCHANGED << subjectSchedule, nextId, concurrent, savePc, saveBody, saveKey, saveResponse,
                  storeAtStart >>
  /\ UNCHANGED << genVars, ruleVars >>

\* lines 1867-1875: findUnique of an update
ItemFindExisting(q) ==
  /\ itemPc[q] = "find"
  /\ IF \E row \in subjectSchedule : row.id = itemBody[q].id
       THEN /\ itemPc' = [itemPc EXCEPT ![q] = "overlap"]
            /\ UNCHANGED itemResponse
       ELSE /\ itemPc' = [itemPc EXCEPT ![q] = "done"]
            /\ itemResponse' = [itemResponse EXCEPT ![q] = 404]
  /\ UNCHANGED << itemBody, saveVars, genVars, ruleVars >>

\* lines 1759-1778 and 1877-1897: the cohort check and the answer to an overlap
ItemCheckOverlap(q) ==
  /\ itemPc[q] = "overlap"
  /\ IF checkScheduleOverlap(subjectSchedule, itemBody[q])
       THEN /\ itemPc' = [itemPc EXCEPT ![q] = "done"]
            /\ itemResponse' = [itemResponse EXCEPT ![q] = 400]
       ELSE /\ itemPc' = [itemPc EXCEPT ![q] =
                            IF itemBody[q].facultyId \notin {"", "TBA"} THEN "instructor" ELSE "write"]
            /\ UNCHANGED itemResponse
  /\ UNCHANGED << itemBody, saveVars, genVars, ruleVars >>

\* lines 1780-1800 and 1899-1920: the instructor check and the answer to a conflict
ItemCheckInstructor(q) ==
  /\ itemPc[q] = "instructor"
  /\ IF checkInstructorConflict(subjectSchedule, itemBody[q])
       THEN /\ itemPc' = [itemPc EXCEPT ![q] = "done"]
            /\ itemResponse' = [itemResponse EXCEPT ![q] = 400]
       ELSE /\ itemPc' = [itemPc EXCEPT ![q] = "write"]
            /\ UNCHANGED itemResponse
  /\ UNCHANGED << itemBody, saveVars, genVars, ruleVars >>

\* lines 1802-1838 and 1922-1958: create or update, and the response
ItemWrite(q) ==
  /\ itemPc[q] = "write"
  /\ IF itemBody[q].handler = "create"
       THEN /\ subjectSchedule' = subjectSchedule \cup {ScheduleRow(nextId, itemBody[q])}
            /\ nextId' = nextId + 1
            /\ itemResponse' = [itemResponse EXCEPT ![q] = 201]
       ELSE IF \E row \in subjectSchedule : row.id = itemBody[q].id
         THEN /\ subjectSchedule' = {row \in subjectSchedule : row.id # itemBody[q].id}
                                      \cup {ScheduleRow(itemBody[q].id, itemBody[q])}
              /\ itemResponse' = [itemResponse EXCEPT ![q] = 200]
              /\ UNCHANGED nextId
         ELSE /\ itemResponse' = [itemResponse EXCEPT ![q] = 500]
              /\ UNCHANGED << subjectSchedule, nextId >>
  /\ itemPc' = [itemPc EXCEPT ![q] = "done"]
  /\ UNCHANGED << itemBody, concurrent, savePc, saveBody, saveKey, saveResponse, storeAtStart >>
  /\ UNCHANGED << genVars, ruleVars >>

\* ------------------------------------------------------------------------
\* Specifications
\* ------------------------------------------------------------------------
\* no createScheduleItem / updateScheduleItem call
ItemsAtRest ==
  /\ itemPc = [q \in ItemCalls |-> "done"]
  /\ itemBody = [q \in ItemCalls |-> << >>]
  /\ itemResponse = [q \in ItemCalls |-> 0]

Init == InitGen(1, MaxCourses) /\ InitSave({FALSE}) /\ RulesAtRest /\ ItemsAtRest

InitTwoCalls == InitGen(2, MaxCoursesTwoCalls) /\ InitSave({FALSE}) /\ RulesAtRest /\ ItemsAtRest

\* the generate side at rest, over one fixed set of stored data
GenAtRest ==
  /\ InitGen(1, 1)
  /\ db.users = UsersOf("FACULTY", [slots |-> Null, days |-> Null])
  /\ db.rooms = << Room(1, "R1"), Room(2, "LAB1") >>
  /\ db.curriculumCourses = << CurriculumCourse(1, "CS101", "BSCS", "1st Year", 3, 0, 3) >>
  /\ db.totalUnits = 0

InitSaveCalls == GenAtRest /\ InitSave(BOOLEAN) /\ RulesAtRest /\ ItemsAtRest

\* one call of calculateSessionRules with any units and department
InitRules ==
  /\ GenAtRest /\ InitSave({FALSE}) /\ ItemsAtRest
  /\ rulesArgs \in RulesArgs
  /\ rulesResult = NoRulesResult

RulesSpec == InitRules /\ [][CalculateRules]_vars

\* two item requests over a timetable without conflicts
InitItems ==
  /\ GenAtRest /\ InitSaveRows(ItemRows, {FALSE}) /\ RulesAtRest
  /\ itemPc = [q \in ItemCalls |-> "idle"]
  /\ itemBody = [q \in ItemCalls |-> << >>]
  /\ itemResponse = [q \in ItemCalls |-> 0]

NextItems ==
  \E q \in ItemCalls :
    \/ \E body \in ItemBodies : ItemStart(q, body)
    \/ ItemFindExisting(q)
    \/ ItemCheckOverlap(q)
    \/ ItemCheckInstructor(q)
    \/ ItemWrite(q)

ItemSpec == InitItems /\ [][NextItems]_vars

Next == \E r \in Runs : GenStart(r) \/ GenFetch(r) \/ PlaceRule(r) \/ GenFinish(r)

NextSave ==
  \E c \in SaveCalls :
    \/ \E subjects \in SaveBodies : SaveStart(c, subjects)
    \/ SaveDelete(c)
    \/ SaveInsert(c)
    \/ SaveFails(c)

Spec == Init /\ [][Next]_vars

TwoCallsSpec == InitTwoCalls /\ [][Next]_vars

SaveSpec == InitSaveCalls /\ [][NextSave]_vars

\* one generate call over one set of instructors and rooms
InitLive ==
  /\ InitGen(1, MaxCoursesLive) /\ InitSave({FALSE}) /\ RulesAtRest /\ ItemsAtRest
  /\ db.users = UsersOf("FACULTY", [slots |-> Null, days |-> Null])
  /\ db.rooms = << Room(1, "R1"), Room(2, "LAB1") >>

\* a timetable saved earlier
PersistedRows ==
  { [id |-> 1, call |-> 0, pos |-> 1, academicYear |-> "2024-2025", semester |-> "1st Semester"],
    [id |-> 2, call |-> 0, pos |-> 2, academicYear |-> "2024-2025", semester |-> "2nd Semester"] }

\* one generate call with any query, over a stored timetable
InitQueries ==
  /\ InitGenQueries(1, MaxCoursesQuery, Queries) /\ InitSaveRows(PersistedRows, {FALSE})
  /\ RulesAtRest /\ ItemsAtRest
  /\ db.users = UsersOf("FACULTY", [slots |-> Null, days |-> Null])
  /\ db.rooms = << Room(1, "R1"), Room(2, "LAB1") >>
  /\ db.totalUnits = 0

QuerySpec == InitQueries /\ [][Next]_vars

\* one generate call for one course over a faculty room drawn from the ranking pool
InitRank ==
  /\ InitGenData(1, RankUserLists(MaxInstructorsRank), {<< Room(1, "R1"), Room(2, "LAB1") >>},
                 CourseLists(1), {0}, {DefaultQuery})
  /\ InitSave({FALSE}) /\ RulesAtRest /\ ItemsAtRest

RankSpec == InitRank /\ [][Next]_vars

\* the synchronous loop of a call, once entered, is run on to its response
LiveSpec ==
  InitLive /\ [][Next]_vars /\ \A r \in Runs : WF_vars(PlaceRule(r)) /\ WF_vars(GenFinish(r))

\* ------------------------------------------------------------------------
\* Properties of the generated schedule
\* ------------------------------------------------------------------------
startMinutes(s) == s.startTime.h * 60 + s.startTime.m

endMinutes(s) == s.endTime.h * 60 + s.endTime.m

intervalsOverlap(a, b) == startMinutes(a) < endMinutes(b) /\ startMinutes(b) < endMinutes(a)

\* pairs of distinct sessions of one call
SessionPairs(r) ==
  {p \in (1..Len(scheduledSubjects[r])) \X (1..Len(scheduledSubjects[r])) : p[1] # p[2]}

\* C1: two distinct sessions of one instructor in the same semester on the same day never
\* overlap, and the later one starts at least 30 minutes after the earlier one ends
FacultyDisjointAndRested ==
  \A r \in Runs : \A p \in SessionPairs(r) :
    LET a == scheduledSubjects[r][p[1]]
        b == scheduledSubjects[r][p[2]]
    IN  (a.facultyId = b.facultyId /\ a.semester = b.semester /\ a.day = b.day)
          => /\ ~intervalsOverlap(a, b)
             /\ (endMinutes(a) <= startMinutes(b) => startMinutes(b) - endMinutes(a) >= 30)

\* an instructor teaches two sessions on one day, the second exactly 30 minutes after the first
FacultyTwoSessionsSameDay ==
  \E r \in Runs : \E p \in SessionPairs(r) :
    LET a == scheduledSubjects[r][p[1]]
        b == scheduledSubjects[r][p[2]]
    IN  /\ a.facultyId = b.facultyId /\ a.semester = b.semester /\ a.day = b.day
        /\ startMinutes(b) - endMinutes(a) = 30

\* C2: two distinct sessions in the same room, semester and day never overlap
RoomDisjoint ==
  \A r \in Runs : \A p \in SessionPairs(r) :
    LET a == scheduledSubjects[r][p[1]]
        b == scheduledSubjects[r][p[2]]
    IN  (a.roomId = b.roomId /\ a.semester = b.semester /\ a.day = b.day) => ~intervalsOverlap(a, b)

\* a room hosts two sessions on one day, one right after the other
RoomTwoSessionsSameDay ==
  \E r \in Runs : \E p \in SessionPairs(r) :
    LET a == scheduledSubjects[r][p[1]]
        b == scheduledSubjects[r][p[2]]
    IN  /\ a.roomId = b.roomId /\ a.semester = b.semester /\ a.day = b.day
        /\ endMinutes(a) = startMinutes(b)

\* C3: two distinct sessions of one cohort (program, year level, semester) on the same day
\* never overlap
CohortDisjoint ==
  \A r \in Runs : \A p \in SessionPairs(r) :
    LET a == scheduledSubjects[r][p[1]]
        b == scheduledSubjects[r][p[2]]
    IN  (a.program = b.program /\ a.yearLevel = b.yearLevel /\ a.semester = b.semester /\ a.day = b.day)
          => ~intervalsOverlap(a, b)

\* a cohort has two sessions on one day while two year levels of one program share a day and time
CohortBusyAndYearLevelsShareSlot ==
  \E r \in Runs :
    /\ \E p \in SessionPairs(r) :
         LET a == scheduledSubjects[r][p[1]]
             b == scheduledSubjects[r][p[2]]
         IN  a.program = b.program /\ a.yearLevel = b.yearLevel /\ a.semester = b.semester /\ a.day = b.day
    /\ \E p \in SessionPairs(r) :
         LET a == scheduledSubjects[r][p[1]]
             b == scheduledSubjects[r][p[2]]
         IN  /\ a.program = b.program /\ a.yearLevel # b.yearLevel /\ a.semester = b.semester
             /\ a.day = b.day /\ a.startTime = b.startTime /\ a.endTime = b.endTime

\* C4: every session lies in 07:00-20:00, is not empty and does not intersect 12:00-13:00
WorkingHours ==
  \A r \in Runs : \A i \in 1..Len(scheduledSubjects[r]) :
    LET s == scheduledSubjects[r][i]
    IN  /\ 7 * 60 <= startMinutes(s)
        /\ startMinutes(s) < endMinutes(s)
        /\ endMinutes(s) <= 20 * 60
        /\ ~(startMinutes(s) < 13 * 60 /\ endMinutes(s) > 12 * 60)

\* a 1.5-hour session was placed after lunch: the search went past the 11:00 entry of the table
NinetyMinuteSessionAfterLunch ==
  \E r \in Runs : \E i \in 1..Len(scheduledSubjects[r]) :
    LET s == scheduledSubjects[r][i]
    IN  endMinutes(s) - startMinutes(s) = 90 /\ startMinutes(s) >= 13 * 60

\* ------------------------------------------------------------------------
\* Workload, preferences and determinism of generateSchedule
\* ------------------------------------------------------------------------
\* the stored user with the given id
storedUser(facultyId) ==
  db.users[CHOOSE i \in 1..Len(db.users) : toString(db.users[i].id) = facultyId]

\* cap(F): 6 for a CAMPUS_ADMIN, otherwise the configured maximum (default 18)
capOf(facultyId) ==
  IF storedUser(facultyId).role = "CAMPUS_ADMIN" THEN 6
  ELSE IF db.totalUnits # 0 THEN db.totalUnits ELSE 18

\* the ids of the curriculum courses with at least one session taught by the instructor
coursesTaughtBy(r, facultyId) ==
  {scheduledSubjects[r][i].subjectId : i \in {j \in 1..Len(scheduledSubjects[r]) :
                                             scheduledSubjects[r][j].facultyId = facultyId}}

\* the units of the curriculum course with the given id
unitsOfCourse(subjectId) ==
  db.curriculumCourses[CHOOSE i \in 1..Len(db.curriculumCourses) :
                         toString(db.curriculumCourses[i].id) = subjectId].units

RECURSIVE sumUnits(_)
sumUnits(subjectIds) ==
  IF subjectIds = {} THEN 0
  ELSE LET one == CHOOSE x \in subjectIds : TRUE
       IN  unitsOfCourse(one) + sumUnits(subjectIds \ {one})

\* C5: at the end of a generate run the units of the distinct courses (by course id) an
\* instructor teaches sum to at most the instructor's cap
WorkloadCapByCourseId ==
  \A r \in Runs : pc[r] = "done" =>
    \A facultyId \in {scheduledSubjects[r][i].facultyId : i \in 1..Len(scheduledSubjects[r])} :
      sumUnits(coursesTaughtBy(r, facultyId)) <= capOf(facultyId)

\* C6: every committed session lies on a day its instructor declared available and inside the
\* instructor's declared preferred window (either encoding); absent or empty declarations
\* restrict nothing
PreferencesHonoured ==
  \A r \in Runs : \A i \in 1..Len(scheduledSubjects[r]) :
    LET s == scheduledSubjects[r][i]
        F == storedUser(s.facultyId)
    IN  /\ isFacultyAvailableOnDays(F, << s.day >>)
        /\ isFacultyAvailableAtTime(F, s.startTime, s.endTime)

\* the returned sessions of a call: course, type, day, start, end, instructor and room
sessionsReturned(r) ==
  [i \in 1..Len(response[r].subjects) |->
     LET s == response[r].subjects[i]
     IN  << s.subjectId, s.type, s.day, s.startTime, s.endTime, s.facultyId, s.roomId >>]

carriesKey(row, key) ==
  /\ row.academicYear = key.curriculumYear
  /\ key.semester # Undefined => row.semester = key.semester

\* the persisted timetable of a key
timetableOf(key) == {row \in subjectSchedule : carriesKey(row, key)}

\* call 1 then call 2, both answered 200, their first sessions carrying the same key
SavedTwiceInSequence ==
  /\ ~concurrent
  /\ savePc[1] = "done" /\ savePc[2] = "done"
  /\ saveResponse[1].status = 200 /\ saveResponse[2].status = 200
  /\ saveKey[1] = saveKey[2]

SaveFailureLeavesStoreUntouched ==
  [][\A c \in SaveCalls :
       (~concurrent /\ savePc[c] # "done" /\ savePc'[c] = "done" /\ saveResponse'[c].status = 500)
         => subjectSchedule' = storeAtStart[c]]_vars

\* the positions of the sessions of call c that carry the key of the call
keySessionsOf(c) ==
  {<< c, i >> : i \in {j \in 1..Len(saveBody[c]) :
                        carriesKey([academicYear |-> stringOrEmpty(saveBody[c][j].academicYear),
                                    semester |-> stringOrEmpty(saveBody[c][j].semester)], saveKey[c])}}

\* C9: after two saves with the same first-session key, in whatever interleaving, the timetable
\* of the key is the session set of one of the two calls, never a mix of both
ConcurrentSavesAtomic ==
  (/\ savePc[1] = "done" /\ savePc[2] = "done"
   /\ saveResponse[1].status = 200 /\ saveResponse[2].status = 200
   /\ saveKey[1] = saveKey[2])
    => LET stored == {<< row.call, row.pos >> : row \in timetableOf(saveKey[1])}
       IN  stored = keySessionsOf(1) \/ stored = keySessionsOf(2)

\* ------------------------------------------------------------------------
\* Day pairs of a course
\* ------------------------------------------------------------------------
\* the canonical day pairs of a session type, as sets of two days
canonicalPairs(type) ==
  LET list == IF type = "Laboratory" THEN LAB_DAY_PAIRS ELSE LECTURE_DAY_PAIRS
  IN  {{list[k][1], list[k][2]} : k \in 1..Len(list)}

\* the other sessions of the same course and type
matesOf(r, i) ==
  {j \in 1..Len(scheduledSubjects[r]) \ {i} :
     /\ scheduledSubjects[r][j].subjectId = scheduledSubjects[r][i].subjectId
     /\ scheduledSubjects[r][j].type = scheduledSubjects[r][i].type}

\* C11: the two sessions of a committed two-session rule have the same start, end, instructor
\* and room and lie on two different days that form a canonical pair of the rule's type
PairedSessionsAgree ==
  \A r \in Runs : \A i \in 1..Len(scheduledSubjects[r]) :
    /\ Cardinality(matesOf(r, i)) = 1
    /\ \A j \in matesOf(r, i) :
         LET a == scheduledSubjects[r][i]
             b == scheduledSubjects[r][j]
         IN  /\ a.startTime = b.startTime /\ a.endTime = b.endTime
             /\ a.facultyId = b.facultyId /\ a.roomId = b.roomId
             /\ a.day # b.day
             /\ {a.day, b.day} \in canonicalPairs(a.type)

\* a lecture pair and a laboratory pair were committed, the lecture not on the first lecture pair
LectureAndLaboratoryPairsCommitted ==
  \E r \in Runs : \E i, j \in 1..Len(scheduledSubjects[r]) :
    /\ scheduledSubjects[r][i].type = "Laboratory"
    /\ scheduledSubjects[r][j].type = "Lecture"
    /\ scheduledSubjects[r][j].day = "Tuesday"

\* C12: within one course no weekday carries both a Lecture and a Laboratory session
LectureAndLaboratoryDaysDisjoint ==
  \A r \in Runs : \A i, j \in 1..Len(scheduledSubjects[r]) :
    LET a == scheduledSubjects[r][i]
        b == scheduledSubjects[r][j]
    IN  (a.subjectId = b.subjectId /\ a.type = "Lecture" /\ b.type = "Laboratory") => a.day # b.day

\* a course has both its lecture pair and its laboratory pair committed
CourseWithLectureAndLaboratory ==
  \E r \in Runs : \E i, j \in 1..Len(scheduledSubjects[r]) :
    /\ scheduledSubjects[r][i].subjectId = scheduledSubjects[r][j].subjectId
    /\ scheduledSubjects[r][i].type = "Lecture"
    /\ scheduledSubjects[r][j].type = "Laboratory"

\* ------------------------------------------------------------------------
\* Workload at a commit
\* ------------------------------------------------------------------------
\* the workload table of a call stays within the caps
WorkloadTableWithinCap(r) ==
  \A i \in 1..Len(db.users) :
    facultyWorkload[r][toString(db.users[i].id)] <= capOf(toString(db.users[i].id))

\* C13: after every commit the workload table is within the caps, and the committed instructor,
\* unless already counted for this course, had room for the units of the course
CommitRespectsCap ==
  [][\A r \in Runs :
       (pc[r] = "placing" /\ Len(scheduledSubjects'[r]) > Len(scheduledSubjects[r]))
         => LET new == scheduledSubjects'[r][Len(scheduledSubjects[r]) + 1]
                counted == \E i \in 1..Len(scheduledSubjects[r]) :
                             /\ scheduledSubjects[r][i].subjectId = new.subjectId
                             /\ scheduledSubjects[r][i].facultyId = new.facultyId
            IN  /\ WorkloadTableWithinCap(r)'
                /\ ~counted =>
                     facultyWorkload[r][new.facultyId] + unitsOfCourse(new.subjectId)
                       <= capOf(new.facultyId)]_vars

\* ------------------------------------------------------------------------
\* Unplaced rules
\* ------------------------------------------------------------------------
\* the rule of the course has no session among the scheduled ones of the call
ruleUnplaced(r, course, rule) ==
  ~\E i \in 1..Len(scheduledSubjects[r]) :
     /\ scheduledSubjects[r][i].subjectId = toString(course.id)
     /\ scheduledSubjects[r][i].type = rule.type

\* the rules the finished call left without sessions, as pairs (course index, rule index)
unplacedRules(r) ==
  {p \in (1..Len(subjectsWithData[r])) \X (1..2) :
     /\ p[2] <= Len(rulesOf(subjectsWithData[r][p[1]]))
     /\ ruleUnplaced(r, subjectsWithData[r][p[1]], rulesOf(subjectsWithData[r][p[1]])[p[2]])}

\* C14: when a rule could not be placed, the result of generate shows it: a conflicts entry or
\* a lowered optimizationScore at the least
UnplacedRulesReported ==
  \A r \in Runs :
    (pc[r] = "done" /\ response[r].status = 200 /\ unplacedRules(r) # {})
      => (response[r].conflicts # << >> \/ response[r].optimizationScore < 100)

\* ------------------------------------------------------------------------
\* Termination of generateSchedule
\* ------------------------------------------------------------------------
\* C15: a call that found at least one course ends with a success answer that carries the
\* sessions committed so far, after every course and rule had its turn
GenerateTerminatesWithSuccess ==
  \A r \in Runs :
    (pc[r] = "placing")
      ~> (/\ pc[r] = "done"
          /\ response[r].status = 200
          /\ ci[r] > Len(subjectsWithData[r])
          /\ response[r].subjects = scheduledSubjects[r])

\* a call has answered with a partial schedule: some sessions, and a rule left unplaced
PartialScheduleReturned ==
  \E r \in Runs :
    /\ pc[r] = "done"
    /\ response[r].status = 200
    /\ Len(response[r].subjects) > 0
    /\ unplacedRules(r) # {}

\* ------------------------------------------------------------------------
\* Rejected queries
\* ------------------------------------------------------------------------
\* a required parameter of the query is absent
queryIncomplete == req.curriculumYear = "" \/ req.semester = ""

\* some stored course belongs to the curriculum year, semester and program of the query
\* (an absent program and the literal "all" stand for every program)
queryMatchesCourse ==
  \E i \in 1..Len(db.curriculumCourses) :
    /\ db.curriculumCourses[i].curriculumYear = req.curriculumYear
    /\ db.curriculumCourses[i].period = req.semester
    /\ req.program \in {"", "all", db.curriculumCourses[i].programCode}

outsideKey(row, key) ==
  \/ row.academicYear # key.curriculumYear
  \/ row.semester # stringOrEmpty(key.semester)

\* C17: the delete of a save removes no persisted row whose academic year or semester differs
\* from the curriculum year and semester of the first session of its input
SaveDeletesOnlyKeyRows ==
  [][\A c \in SaveCalls :
       (savePc[c] = "deleting" /\ savePc'[c] = "inserting")
         => \A row \in subjectSchedule : outsideKey(row, saveKey[c]) => row \in subjectSchedule']_vars

\* ------------------------------------------------------------------------
\* Single-session rules
\* ------------------------------------------------------------------------
\* the rule generateSchedule is about to hand to scheduleSubjectSessions
currentCourse(r) == subjectsWithData[r][ci[r]]

currentRule(r) == rulesOf(currentCourse(r))[ri[r]]

\* the step handles one rule of call r
handlesRule(r) ==
  /\ pc[r] = "placing" /\ cpu = r /\ ci[r] <= Len(subjectsWithData[r])
  /\ << ci'[r], ri'[r] >> # << ci[r], ri[r] >>

\* some (candidate instructor, day, slot, room) satisfies every constraint for one session of
\* the rule under the tracking tables of call r
singleSessionFeasible(r, course, rule) ==
  LET semester == req.semester
      timeSlots == timeSlotsFor(rule.hoursPerSession)
      allRooms == roomCandidates(rule.type, rooms[r])
      programYearSlots == usedProgramYearSlots[r][programYearKeyOf(course, semester)]
      usedDays == Range(usedDayPairsForSubject[r][subjectKeyOf(course, semester)])
  IN  \E fi \in 1..Len(course.recommendedFaculty) : \E d \in 1..5 :
      \E si \in 1..Len(timeSlots) : \E k \in 1..Len(allRooms) :
        LET faculty == course.recommendedFaculty[fi]
            facultyId == toString(faculty.id)
            startTime == timeSlots[si].start
            endTime == minutesToTime(timeToMinutes(startTime) + rule.hoursPerSession)
        IN  /\ DAYS[d] \notin usedDays
            /\ \/ alreadyTeaching(scheduledSubjects[r], course, facultyId, semester)
               \/ facultyWorkload[r][facultyId] + course.units <= capOf(facultyId)
            /\ isValidTimeSlot(startTime, endTime)
            /\ isFacultyAvailable(facultyId, << DAYS[d] >>, startTime, endTime, semester,
                                  usedSlots[r], faculty)
            /\ ~hasProgramYearOverlap(programYearSlots, DAYS[d], DAYS[d], startTime, endTime)
            /\ isRoomAvailable(toString(allRooms[k].id), << DAYS[d] >>, startTime, endTime,
                               semester, usedRooms[r])

\* C18: when a rule with one session per week is handled and some (candidate instructor, day,
\* slot, room) satisfies all constraints, exactly one session is committed for the rule and
\* the tracking tables are updated
SingleSessionRulePlaced ==
  [][\A r \in Runs :
       (handlesRule(r) /\ currentRule(r).sessionsPerWeek = 1
                       /\ singleSessionFeasible(r, currentCourse(r), currentRule(r)))
         => /\ Len(scheduledSubjects'[r]) = Len(scheduledSubjects[r]) + 1
            /\ usedSlots'[r] # usedSlots[r]
            /\ usedRooms'[r] # usedRooms[r]
            /\ usedProgramYearSlots'[r] # usedProgramYearSlots[r]]_vars

\* ------------------------------------------------------------------------
\* All sessions of a rule or none
\* ------------------------------------------------------------------------
\* the tracking tables of call r are left as they were
trackingUnchanged(r) ==
  /\ usedSlots'[r] = usedSlots[r]
  /\ usedRooms'[r] = usedRooms[r]
  /\ usedProgramYearSlots'[r] = usedProgramYearSlots[r]
  /\ facultyWorkload'[r] = facultyWorkload[r]
  /\ usedDayPairsForSubject'[r] = usedDayPairsForSubject[r]

\* C19: a rule gets all the sessions it demands or none: when fewer sessions are returned than
\* the rule's sessions per week, none is returned and the bookings of instructors, rooms and
\* cohorts, the workload table and the days used by the subject stay as they were
AllSessionsOrNone ==
  [][\A r \in Runs :
       (handlesRule(r)
          /\ Len(scheduledSubjects'[r]) - Len(scheduledSubjects[r]) < currentRule(r).sessionsPerWeek)
         => /\ scheduledSubjects'[r] = scheduledSubjects[r]
            /\ trackingUnchanged(r)]_vars

\* a finished call committed the pair of one rule and left another two-session rule without
\* any session
PairCommittedAndPairRefused ==
  \E r \in Runs :
    /\ pc[r] = "done"
    /\ Len(scheduledSubjects[r]) >= 2
    /\ \E p \in unplacedRules(r) : rulesOf(subjectsWithData[r][p[1]])[p[2]].sessionsPerWeek = 2

\* ------------------------------------------------------------------------
\* Order of the nested search
\* ------------------------------------------------------------------------
\* the canonical day pairs of the rule's type without the pairs that touch a day the subject
\* already uses
openPairs(r, course, rule) ==
  LET usedDays == Range(usedDayPairsForSubject[r][subjectKeyOf(course, req.semester)])
      open(pair) == pair[1] \notin usedDays /\ pair[2] \notin usedDays
  IN  SelectSeq(IF rule.type = "Laboratory" THEN LAB_DAY_PAIRS ELSE LECTURE_DAY_PAIRS, open)

\* the slot table of the rule's session length
slotTable(rule) == IF rule.hoursPerSession = 60 THEN TIME_SLOTS_1H ELSE TIME_SLOTS_1_5H

\* the rooms eligible for the rule's type: laboratory rooms for a laboratory, the other rooms
\* for a lecture, every room when there is none of the kind
eligibleRooms(r, rule) ==
  LET ofKind(room) == includesLab(room.name) <=> rule.type = "Laboratory"
  IN  IF \E i \in 1..Len(rooms[r]) : ofKind(rooms[r][i]) THEN SelectSeq(rooms[r], ofKind)
      ELSE rooms[r]

\* candidate fi of the course may take its units under the workload table of call r
withinCap(r, course, fi) ==
  LET facultyId == toString(course.recommendedFaculty[fi].id)
  IN  \/ alreadyTeaching(scheduledSubjects[r], course, facultyId, req.semester)
      \/ facultyWorkload[r][facultyId] + course.units
            <= (IF instructorMaxUnits[r][facultyId] # 0 THEN instructorMaxUnits[r][facultyId] ELSE 18)

\* candidate fi, on both days of the pair, at the slot: instructor and cohort are free
slotFeasible(r, course, rule, fi, pair, si) ==
  LET faculty == course.recommendedFaculty[fi]
      startTime == slotTable(rule)[si].start
      endTime == minutesToTime(timeToMinutes(startTime) + rule.hoursPerSession)
  IN  /\ withinCap(r, course, fi)
      /\ isValidTimeSlot(startTime, endTime)
      /\ isFacultyAvailable(toString(faculty.id), pair, startTime, endTime, req.semester,
                            usedSlots[r], faculty)
      /\ ~hasProgramYearOverlap(usedProgramYearSlots[r][programYearKeyOf(course, req.semester)],
                                pair[1], pair[2], startTime, endTime)

\* the room is free on both days of the pair at the slot
roomFree(r, rule, pair, si, room) ==
  LET startTime == slotTable(rule)[si].start
      endTime == minutesToTime(timeToMinutes(startTime) + rule.hoursPerSession)
  IN  isRoomAvailable(toString(room.id), pair, startTime, endTime, req.semester, usedRooms[r])

\* the tuple (candidate, day pair, slot, room) satisfies every constraint under the tracking
\* tables of call r
tupleFeasible(r, course, rule, fi, pair, si, room) ==
  slotFeasible(r, course, rule, fi, pair, si) /\ roomFree(r, rule, pair, si, room)

\* some room makes the slot feasible; some slot the pair; some pair the candidate
slotHasRoom(r, course, rule, fi, pair, si) ==
  /\ slotFeasible(r, course, rule, fi, pair, si)
  /\ \E k \in 1..Len(eligibleRooms(r, rule)) : roomFree(r, rule, pair, si, eligibleRooms(r, rule)[k])

pairHasSlot(r, course, rule, fi, pair) ==
  \E si \in 1..Len(slotTable(rule)) : slotHasRoom(r, course, rule, fi, pair, si)

candidateHasPair(r, course, rule, fi) ==
  \E pi \in 1..Len(openPairs(r, course, rule)) :
    pairHasSlot(r, course, rule, fi, openPairs(r, course, rule)[pi])

\* the step commits the pair of a two-session rule of call r
commitsPair(r) ==
  handlesRule(r) /\ Len(scheduledSubjects'[r]) = Len(scheduledSubjects[r]) + 2

\* C20: the committed (instructor, day pair, slot, room) of a two-session rule is the first
\* feasible tuple of the nested search: no higher-ranked candidate has a feasible tuple, the
\* chosen instructor has none on an earlier open day pair, the pair none at an earlier slot,
\* and no earlier eligible room is free on both days at the slot
FirstFeasibleTupleCommitted ==
  [][\A r \in Runs :
       commitsPair(r) =>
         LET course == currentCourse(r)
             rule == currentRule(r)
             first == scheduledSubjects'[r][Len(scheduledSubjects[r]) + 1]
             second == scheduledSubjects'[r][Len(scheduledSubjects[r]) + 2]
             pairs == openPairs(r, course, rule)
             allRooms == eligibleRooms(r, rule)
         IN  \E fi \in 1..Len(course.recommendedFaculty) : \E pi \in 1..Len(pairs) :
             \E si \in 1..Len(slotTable(rule)) : \E k \in 1..Len(allRooms) :
               /\ toString(course.recommendedFaculty[fi].id) = first.facultyId
               /\ pairs[pi] = << first.day, second.day >>
               /\ slotTable(rule)[si].start = first.startTime
               /\ toString(allRooms[k].id) = first.roomId
               /\ tupleFeasible(r, course, rule, fi, pairs[pi], si, allRooms[k])
               /\ \A fj \in 1..(fi - 1) : ~candidateHasPair(r, course, rule, fj)
               /\ \A pj \in 1..(pi - 1) : ~pairHasSlot(r, course, rule, fi, pairs[pj])
               /\ \A sj \in 1..(si - 1) : ~slotHasRoom(r, course, rule, fi, pairs[pi], sj)
               /\ \A kj \in 1..(k - 1) : ~roomFree(r, rule, pairs[pi], si, allRooms[kj])]_vars

\* the course of a scheduled session
courseOfSession(r, s) ==
  subjectsWithData[r][CHOOSE c \in 1..Len(subjectsWithData[r]) :
                        toString(subjectsWithData[r][c].id) = s.subjectId]

\* a call committed a pair to a candidate other than the top-ranked one of the course, and a
\* pair at a later slot than the first of the table
LaterTupleCommitted ==
  \E r \in Runs : \E i, j \in 1..Len(scheduledSubjects[r]) :
    /\ Len(courseOfSession(r, scheduledSubjects[r][i]).recommendedFaculty) >= 2
    /\ toString(courseOfSession(r, scheduledSubjects[r][i]).recommendedFaculty[1].id)
         # scheduledSubjects[r][i].facultyId
    /\ timeToMinutes(scheduledSubjects[r][j].startTime) > 7 * 60

\* ------------------------------------------------------------------------
\* Order of processing
\* ------------------------------------------------------------------------
\* the position of the course of a scheduled session in the course list of the call
courseIndexOf(r, s) ==
  CHOOSE c \in 1..Len(subjectsWithData[r]) : toString(subjectsWithData[r][c].id) = s.subjectId

\* the ids of the courses of the call, and of the stored courses the query selects, in order
idsOf(courses) == [i \in 1..Len(courses) |-> courses[i].id]

selectedCourses ==
  LET selected(c) == /\ c.curriculumYear = req.curriculumYear /\ c.period = req.semester
                     /\ req.program \in {"", "all", c.programCode}
  IN  SelectSeq(db.curriculumCourses, selected)

\* position p comes before position q in the order of courses, then rules
positionBefore(p, q) == p[1] < q[1] \/ (p[1] = q[1] /\ p[2] < q[2])

rankedBefore(a, b) ==
  LET yearsA == storedUser(toString(a.id)).yearsOfExperience
      yearsB == storedUser(toString(b.id)).yearsOfExperience
  IN  \/ a.matchScore > b.matchScore
      \/ a.matchScore = b.matchScore /\ a.tagMatchPercentage > b.tagMatchPercentage
      \/ a.matchScore = b.matchScore /\ a.tagMatchPercentage = b.tagMatchPercentage /\ yearsA > yearsB
      \/ a.matchScore = b.matchScore /\ a.tagMatchPercentage = b.tagMatchPercentage /\ yearsA = yearsB
           /\ localeCompare(a.lastname, b.lastname) < 0

\* the ids of the candidates of a course
candidateIds(course) ==
  {toString(course.recommendedFaculty[i].id) : i \in 1..Len(course.recommendedFaculty)}

\* C22: the candidate list of a course holds at most five instructors, each with score > 0 and
\* tag match > 0, ordered by score, tag match, years of experience and last name; every
\* session of a course is taught by one of its candidates, so a course without candidates has
\* no session
CandidateListRanked ==
  \A r \in Runs :
    /\ \A c \in 1..Len(subjectsWithData[r]) :
         LET list == subjectsWithData[r][c].recommendedFaculty
         IN  /\ Len(list) <= 5
             /\ \A i \in 1..Len(list) : list[i].matchScore > 0 /\ list[i].tagMatchPercentage > 0
             /\ \A i, j \in 1..Len(list) : i < j => rankedBefore(list[i], list[j])
    /\ \A i \in 1..Len(scheduledSubjects[r]) :
         scheduledSubjects[r][i].facultyId
           \in candidateIds(courseOfSession(r, scheduledSubjects[r][i]))

\* ------------------------------------------------------------------------
\* Room classes
\* ------------------------------------------------------------------------
\* the room of the name is of the class the session type requires
roomOfRequiredClass(type, roomName) == includesLab(roomName) <=> type = "Laboratory"

\* C23: a Laboratory session is in a room whose name contains "lab" and a Lecture session in a
\* room whose name does not, unless the room list of the call has no room of the required
\* class; busy rooms of the required class never make the search take a room of the other
\* class
RoomClassRespected ==
  \A r \in Runs : \A i \in 1..Len(scheduledSubjects[r]) :
    LET s == scheduledSubjects[r][i]
    IN  (\E k \in 1..Len(rooms[r]) : roomOfRequiredClass(s.type, rooms[r][k].name))
          => roomOfRequiredClass(s.type, s.roomName)

\* the only lecture room was busy at 07:00 and the laboratory room free all week: the lecture
\* of another cohort and instructor went to a later slot of the lecture room
LectureWaitedForLectureRoom ==
  \E r \in Runs : \E i, j \in 1..Len(scheduledSubjects[r]) :
    LET a == scheduledSubjects[r][i]
        b == scheduledSubjects[r][j]
    IN  /\ \E k \in 1..Len(rooms[r]) : includesLab(rooms[r][k].name)
        /\ \A k \in 1..Len(scheduledSubjects[r]) : ~includesLab(scheduledSubjects[r][k].roomName)
        /\ a.type = "Lecture" /\ b.type = "Lecture" /\ a.day = b.day
        /\ a.facultyId # b.facultyId
        /\ << a.program, a.yearLevel >> # << b.program, b.yearLevel >>
        /\ a.roomId = b.roomId
        /\ timeToMinutes(a.startTime) = 7 * 60
        /\ timeToMinutes(b.startTime) >= timeToMinutes(a.endTime)

\* ------------------------------------------------------------------------
\* Optimization score
\* ------------------------------------------------------------------------
\* the (subject code, program, year level) groups of the output of call r
outputGroups(r) ==
  {<< response[r].subjects[i].subjectCode, response[r].subjects[i].program,
      response[r].subjects[i].yearLevel >> : i \in 1..Len(response[r].subjects)}

\* the minutes of the sessions of a group, counted minute by minute
minutesOfGroup(r, g) ==
  LET out == response[r].subjects
      members == {i \in 1..Len(out) : << out[i].subjectCode, out[i].program, out[i].yearLevel >> = g}
  IN  Cardinality({p \in members \X (1..180) : p[2] <= endMinutes(out[p[1]]) - startMinutes(out[p[1]])})

\* the minutes the units of the course of a group stand for: one hour for a lecture unit and
\* three hours for a laboratory unit, whatever the department
expectedMinutesOfGroup(r, g) ==
  LET course == CHOOSE c \in Range(subjectsWithData[r]) :
                  << c.subjectCode, c.programCode, c.yearLevel >> = g
  IN  60 * course.lec + 180 * course.lab

\* the groups whose hours differ from the expected hours by more than 0.1 h
mismatchedGroups(r) ==
  {g \in outputGroups(r) :
     \/ minutesOfGroup(r, g) - expectedMinutesOfGroup(r, g) > 6
     \/ expectedMinutesOfGroup(r, g) - minutesOfGroup(r, g) > 6}

\* the pairs of output sessions of one cohort that overlap on a day
overlappingCohortPairs(r) ==
  LET out == response[r].subjects
  IN  {p \in (1..Len(out)) \X (1..Len(out)) :
         /\ p[1] < p[2]
         /\ << out[p[1]].program, out[p[1]].yearLevel, out[p[1]].semester, out[p[1]].day >>
              = << out[p[2]].program, out[p[2]].yearLevel, out[p[2]].semester, out[p[2]].day >>
         /\ intervalsOverlap(out[p[1]], out[p[2]])}

errorsOfOutput(r) == Cardinality(mismatchedGroups(r)) + Cardinality(overlappingCohortPairs(r))

validInterval(startMin, length) ==
  /\ startMin >= 7 * 60
  /\ startMin + length <= 20 * 60
  /\ ~(startMin < 13 * 60 /\ startMin + length > 12 * 60)

\* the starts of the day at a cadence of the given minutes
startsEvery(cadence) == {m \in (7 * 60)..(20 * 60) : m % cadence = 0}

\* the valid slots of a table, as (start minute, end minute)
validSlotsOf(table) ==
  {<< timeToMinutes(table[i].start), timeToMinutes(table[i].end) >> : i \in
     {k \in 1..Len(table) : isValidTimeSlot(table[k].start, table[k].end)}}

\* C26: the table searched for a 1.5-hour rule offers every valid interval of 90 minutes that
\* starts on a half hour, and the table of the 1-hour rules holds exactly the 12 valid hourly
\* slots
SlotTablesComplete ==
  \A r \in Runs :
    (pc[r] = "placing" /\ ci[r] <= Len(subjectsWithData[r])) =>
      /\ currentRule(r).hoursPerSession = 90 =>
           \A m \in startsEvery(30) :
             validInterval(m, 90) => << m, m + 90 >> \in validSlotsOf(timeSlotsFor(90))
      /\ currentRule(r).hoursPerSession = 60 =>
           /\ validSlotsOf(timeSlotsFor(60)) = {<< m, m + 60 >> : m \in {x \in startsEvery(60) : validInterval(x, 60)}}
           /\ Cardinality(validSlotsOf(timeSlotsFor(60))) = 12
           /\ Len(timeSlotsFor(60)) = 12

\* ------------------------------------------------------------------------
\* Session rules of a course
\* ------------------------------------------------------------------------
\* the department is BSCS or ACT, in any case of the letters
isBSCSorACT(department) == department \in {"BSCS", "bscs", "ACT", "act"}

\* the rules of the result of the given type
rulesOfType(type) ==
  {i \in 1..Len(rulesResult.rules) : rulesResult.rules[i].type = type}

\* C25: calculateSessionRules returns at most one Lecture rule followed by at most one
\* Laboratory rule, none for zero units; lectures of 3 units are 2 sessions of 1.5 h, of 2
\* units 2 sessions of 1 h, of 1 unit 1 session of 1 h, of n other units n sessions of 1 h;
\* a laboratory unit is 2 sessions of 1.5 h for BSCS and ACT and 1 session of 1 h otherwise;
\* the total of every rule is its sessions per week times the length of a session
SessionRulesAsTabulated ==
  rulesResult.returned =>
    LET rules == rulesResult.rules
        lec == rulesArgs.lecUnits
        lab == rulesArgs.labUnits
    IN  /\ Cardinality(rulesOfType("Lecture")) = (IF lec > 0 THEN 1 ELSE 0)
        /\ Cardinality(rulesOfType("Laboratory")) = (IF lab > 0 THEN 1 ELSE 0)
        /\ Len(rules) = Cardinality(rulesOfType("Lecture")) + Cardinality(rulesOfType("Laboratory"))
        /\ \A i \in rulesOfType("Lecture") : \A j \in rulesOfType("Laboratory") : i < j
        /\ \A i \in 1..Len(rules) :
             rules[i].totalHoursNeeded = rules[i].sessionsPerWeek * rules[i].hoursPerSession
        /\ \A i \in rulesOfType("Lecture") :
             /\ rules[i].sessionsPerWeek = (IF lec = 3 THEN 2 ELSE IF lec = 2 THEN 2 ELSE lec)
             /\ rules[i].hoursPerSession = (IF lec = 3 THEN 90 ELSE 60)
        /\ \A i \in rulesOfType("Laboratory") :
             /\ rules[i].sessionsPerWeek = (IF isBSCSorACT(rulesArgs.department) THEN 2 * lab ELSE lab)
             /\ rules[i].hoursPerSession = (IF isBSCSorACT(rulesArgs.department) THEN 90 ELSE 60)

\* the rules of 3 lecture units and 2 laboratory units of department act were returned
RulesOfLowerCaseDepartmentReturned ==
  /\ rulesResult.returned /\ Len(rulesResult.rules) = 2
  /\ rulesArgs = [lecUnits |-> 3, labUnits |-> 2, department |-> "act"]
  /\ rulesResult.rules[2].sessionsPerWeek = 4

\* ------------------------------------------------------------------------
\* Validation of a generated schedule
\* ------------------------------------------------------------------------
\* the courses of call r with at least one session in the output whose hours differ from the
\* hours their units stand for
coursesWithWrongHours(r) ==
  {c \in 1..Len(subjectsWithData[r]) :
     LET course == subjectsWithData[r][c]
         g == << course.subjectCode, course.programCode, course.yearLevel >>
     IN  /\ g \in outputGroups(r)
         /\ minutesOfGroup(r, g) # 60 * course.lec + 180 * course.lab}

\* the courses of call r without any session in the output
coursesWithoutSession(r) ==
  {c \in 1..Len(subjectsWithData[r]) :
     \A i \in 1..Len(response[r].subjects) :
       response[r].subjects[i].subjectId # toString(subjectsWithData[r][c].id)}

\* C27: the validation of a generate output finds no cohort overlap, so the score is
\* max(0, 100 - 5 * n) for the n courses that have a session and the wrong hours; a course
\* without session counts for nothing and an empty schedule scores 100
ValidationFindsNoCohortOverlap ==
  \A r \in Runs :
    (pc[r] = "done" /\ response[r].status = 200) =>
      /\ overlappingCohortPairs(r) = {}
      /\ \/ response[r].optimizationScore = 100 - 5 * Cardinality(coursesWithWrongHours(r))
         \/ /\ response[r].optimizationScore = 0
            /\ 100 - 5 * Cardinality(coursesWithWrongHours(r)) < 0
      /\ response[r].subjects = << >> => response[r].optimizationScore = 100

\* an output scored 100 in which two courses of one cohort meet on a day, one after the
\* other, while a third course has no session
CohortSharesDayAndCourseUnplaced ==
  \E r \in Runs : \E i, j \in 1..Len(response[r].subjects) :
    LET a == response[r].subjects[i]
        b == response[r].subjects[j]
    IN  /\ pc[r] = "done" /\ response[r].status = 200
        /\ response[r].optimizationScore = 100
        /\ coursesWithoutSession(r) # {}
        /\ a.subjectId # b.subjectId
        /\ << a.program, a.yearLevel, a.day >> = << b.program, b.yearLevel, b.day >>

\* ------------------------------------------------------------------------
\* Days of a subject code
\* ------------------------------------------------------------------------
\* C28: the days a subject uses are kept per (subject code, semester), not per course: over
\* all courses of a call that share a subject code no weekday has more than one committed
\* session of the code, and the table of used days lists exactly the days of its sessions
SubjectCodeOncePerDay ==
  \A r \in Runs :
    /\ \A i, j \in 1..Len(scheduledSubjects[r]) :
         (i # j /\ scheduledSubjects[r][i].subjectCode = scheduledSubjects[r][j].subjectCode
                /\ scheduledSubjects[r][i].semester = scheduledSubjects[r][j].semester)
           => scheduledSubjects[r][i].day # scheduledSubjects[r][j].day
    /\ pc[r] = "placing" =>
         \A key \in SubjectKeys :
           Range(usedDayPairsForSubject[r][key])
             = {scheduledSubjects[r][i].day : i \in
                  {k \in 1..Len(scheduledSubjects[r]) :
                     << scheduledSubjects[r][k].subjectCode, scheduledSubjects[r][k].semester >> = key}}

\* two courses with one subject code: the earlier one holds Monday and Wednesday, the later
\* one, of another program, was sent to other days
LaterCourseOfCodeOnOtherDays ==
  \E r \in Runs : \E i, j \in 1..Len(scheduledSubjects[r]) :
    LET a == scheduledSubjects[r][i]
        b == scheduledSubjects[r][j]
    IN  /\ a.subjectCode = b.subjectCode /\ a.subjectId # b.subjectId
        /\ a.program # b.program
        /\ courseIndexOf(r, a) < courseIndexOf(r, b)
        /\ a.day = "Monday" /\ b.day = "Tuesday"

\* ------------------------------------------------------------------------
\* Candidate lists and the workload
\* ------------------------------------------------------------------------
\* the loaded instructors of call r that share a tag with the course
instructorsWithTagMatch(r, course) ==
  {toString(instructors[r][i].id) : i \in
     {k \in 1..Len(instructors[r]) :
        calculateFacultyMatchScore(parseJsonArray(course.tags), specializationOf(instructors[r][k])) > 0}}

\* the candidate lists of call r were computed with every load at 0 and lost nobody to the
\* load test of the scorer
listsComputedAtLoadZero(r) ==
  \A c \in 1..Len(subjectsWithData[r]) :
    LET course == subjectsWithData[r][c]
    IN  /\ \A i \in 1..Len(course.recommendedFaculty) :
             /\ course.recommendedFaculty[i].currentWorkload = 0
             /\ course.recommendedFaculty[i].matchScore >= course.recommendedFaculty[i].tagMatchPercentage
        /\ Cardinality(instructorsWithTagMatch(r, course)) <= 5
             => candidateIds(course) = instructorsWithTagMatch(r, course)

sameCohortDay(a, b) ==
  << a.day, a.yearLevel, a.semester, a.academicYear, a.program >>
    = << b.day, b.yearLevel, b.semester, b.academicYear, b.program >>

\* two rows of one instructor, not 'TBA', on one day
sameInstructorDay(a, b) ==
  /\ a.facultyId = b.facultyId /\ a.facultyId # "TBA"
  /\ << a.day, a.semester, a.academicYear >> = << b.day, b.semester, b.academicYear >>

\* no two rows of one cohort and no two rows of one instructor overlap in time
conflictFree(rows) ==
  \A a, b \in rows :
    (a.id # b.id /\ (sameCohortDay(a, b) \/ sameInstructorDay(a, b))) => ~intervalsOverlap(a, b)

\* C30: starting from a timetable without conflicts, after any interleaving of create and
\* update requests no two persisted rows of one cohort and no two rows of one instructor
\* (other than 'TBA') overlap on a day; a request that would bring such an overlap is
\* rejected, also when another request is between its check and its write
StoreStaysConflictFree == conflictFree(subjectSchedule)

====
